---------------------------- MODULE Spec2Model ----------------------------
(***************************************************************************)
(* A model of the DeepDiver research agent (src/research_agent).           *)
(*                                                                         *)
(*   SpecGen  one FireworksModel.generate_response call: the retry loop,   *)
(*            the back-off sleeps and the time the call takes.             *)
(*   Spec     DeepResearchAgent.assist and                                 *)
(*            ResearchCoordinator.conduct_research for two runs sharing    *)
(*            one ResearchMemory, interleaved at their suspension points.  *)
(*   SpecMem  a caller of ResearchMemory's methods: store, update, clear,  *)
(*            serialize and deserialize, over two sessions and two queries.*)
(*   SpecStage  single calls of the planner and of the retriever on the    *)
(*            responses a model can give.                                  *)
(***************************************************************************)
EXTENDS Integers, Sequences, FiniteSets, TLC

VARIABLES
    \* ---- one generate_response call (models.py) ----
    genPc,          \* "idle" | "posting" | "sleeping" | "returned" | "raised"
    attempt,        \* the loop variable of `for attempt in range(max_retries)`
    requests,       \* number of client.post calls issued by this call
    sleeps,         \* the wait_time of every asyncio.sleep of this call, in order
    elapsed,        \* seconds since generate_response was called
    outcomes,       \* what each request of this call ended with, in order
    generated_text, \* the value returned (genPc = "returned")
    raised          \* the exception that left the call (genPc = "raised")

genVars == <<genPc, attempt, requests, sleeps, elapsed, outcomes,
             generated_text, raised>>

VARIABLES
    \* ---- ResearchMemory (memory.py), shared by every run ----
    research_store, \* {session_id: {query: research_data}}
    task_store,     \* {session_id: {query: {task: task_result}}}
    \* ---- one entry per run: an assist call and its conduct_research ----
    pc,             \* where the run is suspended, see RunStates
    session_id,     \* str(session.activity_id)
    query,          \* query.prompt
    existing_research, \* what memory.get_research returned: <<>> (None) or <<record>>
    user_message,   \* the planner's user_message: the completed tasks it lists
    research_plan,  \* <<>> until the planner returned, then <<plan>>
    results,        \* the local list `results`
    retrieval_results, \* of the task in progress: <<>> or <<value>>
    report_call,    \* <<>> or <<the arguments generate_report was called with>>
    returned,       \* what conduct_research returned: <<>> or <<record>>
    error,          \* the exception that left assist ("" when none)
    events,         \* what the run did, in order: see the Ev* operators
    streamed        \* the chunks emitted on the FINAL_REPORT stream, in order

memVars == <<research_store, task_store>>

runVars == <<pc, session_id, query, existing_research, user_message,
             research_plan, results, retrieval_results, report_call, returned,
             error, events, streamed>>

VARIABLES
    \* ---- a caller of ResearchMemory's methods (memory.py) ----
    api_call,       \* the last method called and how it ended, see ApiCall
    data_str,       \* the last string serialize() returned: <<>> or <<blob>>
    api_calls       \* number of method calls made

apiVars == <<api_call, data_str, api_calls>>

VARIABLES
    \* ---- one call of a stage on a model response, outside a run ----
    stage_call,     \* the stage called and its arguments, see StageCall
    stage_result    \* what the call returned or raised

stageVars == <<stage_call, stage_result>>

vars == <<genVars, memVars, runVars, apiVars, stageVars>>

-----------------------------------------------------------------------------
(* Small helpers *)

Last(s) == s[Len(s)]

RECURSIVE Pow2(_)
Pow2(n) == IF n <= 0 THEN 1 ELSE 2 * Pow2(n - 1)

Min(a, b) == IF a <= b THEN a ELSE b

\* A Python dict is a function whose domain is the set of its keys;
\* EmptyDict is {}.
EmptyDict == <<>>

\* d[k] = v
DictSet(d, k, v) == (k :> v) @@ d

\* d.get(k, default)
DictGet(d, k, default) == IF k \in DOMAIN d THEN d[k] ELSE default

\* An Optional value: <<>> is None, <<v>> is the value v.
None == <<>>

Some(v) == <<v>>

-----------------------------------------------------------------------------
(***************************************************************************)
(* FireworksModel.generate_response (models.py 56-165)                     *)
(***************************************************************************)

max_retries == 3

retry_delay == 2

\* client.post(..., timeout=60.0)
request_timeout == 60

\* Seconds an answered request may take (short, or just under the timeout).
AnswerSecs == {1, 59}

\* HTTP error statuses the endpoint answers with.
ErrorStatuses == {400, 429, 500}

\* What one client.post can end with.
\*   "ok"       a 2xx response; body says what response.json() holds:
\*                "text"     {"choices": [{"text": <text>}]}
\*                "nochoice" an object without "choices"
\*                "empty"    {"choices": []}
\*                "notjson"  a body that is not JSON
\*   "status"   a response with an error status (raise_for_status raises)
\*   "connfail" httpx.RequestError: "timeout" after request_timeout seconds,
\*              "dns" or "reset" earlier
EndpointAnswers ==
    [kind : {"ok"}, code : {200}, body : {"text", "nochoice", "empty", "notjson"},
     secs : AnswerSecs]
    \cup [kind : {"status"}, code : ErrorStatuses, body : {"error"}, secs : AnswerSecs]
    \cup [kind : {"connfail"}, code : {0}, body : {"dns", "reset"}, secs : {1}]
    \cup [kind : {"connfail"}, code : {0}, body : {"timeout"}, secs : {request_timeout}]

\* The text the endpoint generates in a "text" body.
EndpointText == "generated"

\* A back-off that does not double
wait_time_fixed(a) == retry_delay

\* wait_time = retry_delay * (2 ** attempt)   (models.py 140, 155)
wait_time(a) == retry_delay * Pow2(a)

\* result.get("choices", [{}])[0].get("text", "")   (models.py 130)
\* "ok" for a value, else the exception the expression or response.json() raises.
ExtractText(answer) ==
    CASE answer.body = "text"     -> [ok |-> TRUE,  val |-> EndpointText]
      [] answer.body = "nochoice" -> [ok |-> TRUE,  val |-> ""]
      [] answer.body = "empty"    -> [ok |-> FALSE, val |-> "IndexError"]
      [] OTHER                    -> [ok |-> FALSE, val |-> "JSONDecodeError"]

\* The exception a failed request raises inside the try block.
ExceptionOf(answer) ==
    CASE answer.kind = "status"   -> "HTTPStatusError"
      [] answer.kind = "connfail" -> "RequestError"
      [] OTHER                    -> ExtractText(answer).val

\* Every error status retried like a 429
ExceptDecision_AnyStatus(answer, a) ==
    IF a < max_retries - 1 THEN "retry" ELSE "raise"

\* Connection failures not retried
ExceptDecision_NoConnRetry(answer, a) ==
    IF answer.kind = "status" /\ answer.code = 429 /\ a < max_retries - 1
    THEN "retry" ELSE "raise"

\* The last attempt backs off too
ExceptDecision_OffByOne(answer, a) ==
    IF answer.kind = "status"
    THEN IF answer.code = 429 /\ a <= max_retries - 1 THEN "retry" ELSE "raise"
    ELSE IF a <= max_retries - 1 THEN "retry" ELSE "raise"

\* Which except clause decides, and what it decides (models.py 134-162):
\* "retry" (sleep, continue) or "raise".
ExceptDecision(answer, a) ==
    IF answer.kind = "status"
    THEN \* except httpx.HTTPStatusError
         IF answer.code = 429 /\ a < max_retries - 1 THEN "retry" ELSE "raise"
    ELSE \* except (httpx.RequestError, Exception)
         IF a < max_retries - 1 THEN "retry" ELSE "raise"

GenInit ==
    /\ genPc = "idle"
    /\ attempt = 0
    /\ requests = 0
    /\ sleeps = <<>>
    /\ elapsed = 0
    /\ outcomes = <<>>
    /\ generated_text = ""
    /\ raised = ""

\* The call enters the loop and posts its first request.
GenCall ==
    /\ genPc = "idle"
    /\ genPc' = "posting"
    /\ attempt' = 0
    /\ requests' = 1
    /\ UNCHANGED <<sleeps, elapsed, outcomes, generated_text, raised>>
    /\ UNCHANGED <<memVars, runVars, apiVars, stageVars>>

\* The request in flight ends with `answer`.
GenAnswer(answer) ==
    /\ genPc = "posting"
    /\ outcomes' = Append(outcomes, answer)
    /\ elapsed' = elapsed + answer.secs
    /\ IF answer.kind = "ok" /\ ExtractText(answer).ok
       THEN /\ genPc' = "returned"
            /\ generated_text' = ExtractText(answer).val
            /\ UNCHANGED <<sleeps, raised>>
       ELSE IF ExceptDecision(answer, attempt) = "retry"
            THEN /\ genPc' = "sleeping"
                 /\ sleeps' = Append(sleeps, wait_time(attempt))
                 /\ UNCHANGED <<generated_text, raised>>
            ELSE /\ genPc' = "raised"
                 /\ raised' = ExceptionOf(answer)
                 /\ UNCHANGED <<sleeps, generated_text>>
    /\ UNCHANGED <<attempt, requests>>
    /\ UNCHANGED <<memVars, runVars, apiVars, stageVars>>

\* A sleep after which the loop does not go on
GenWake_StaysAsleep ==
    /\ genPc = "sleeping"
    /\ UNCHANGED genVars
    /\ UNCHANGED <<memVars, runVars, apiVars, stageVars>>

\* asyncio.sleep(wait_time) returns; `continue` starts the next iteration,
\* or the loop is exhausted and line 165 raises.
GenWake ==
    /\ genPc = "sleeping"
    /\ elapsed' = elapsed + Last(sleeps)
    /\ IF attempt + 1 < max_retries
       THEN /\ genPc' = "posting"
            /\ attempt' = attempt + 1
            /\ requests' = requests + 1
            /\ UNCHANGED raised
       ELSE /\ genPc' = "raised"
            /\ raised' = "Failed to get response from Fireworks.ai API after 3 attempts"
            /\ UNCHANGED <<attempt, requests>>
    /\ UNCHANGED <<sleeps, outcomes, generated_text>>
    /\ UNCHANGED <<memVars, runVars, apiVars, stageVars>>

GenNext ==
    \/ GenCall
    \/ \E answer \in EndpointAnswers : GenAnswer(answer)
    \/ GenWake


-----------------------------------------------------------------------------
(***************************************************************************)
(* ResearchMemory (memory.py)                                              *)
(***************************************************************************)

\* A store that keeps the entry a key already has (setdefault)
store_research_keep(store, s, q, research_data) ==
    IF q \in DOMAIN DictGet(store, s, EmptyDict) THEN store
    ELSE DictSet(store, s, DictSet(DictGet(store, s, EmptyDict), q, research_data))

\* store_research: the store after self.research_store[session_id][query] = data
store_research(store, s, q, research_data) ==
    DictSet(store, s, DictSet(DictGet(store, s, EmptyDict), q, research_data))

\* get_research: self.research_store.get(session_id, {}).get(query)
get_research(store, s, q) ==
    LET of_session == DictGet(store, s, EmptyDict)
    IN  IF q \in DOMAIN of_session THEN Some(of_session[q]) ELSE None

\* An update that initializes the dictionaries and forgets the entry
update_task_result_lost(store, s, q, task, result) ==
    LET of_session == DictGet(store, s, EmptyDict)
    IN  DictSet(store, s, DictSet(of_session, q, DictGet(of_session, q, EmptyDict)))

\* An update that writes the task's entry under every query of the session
update_task_result_every_query(store, s, q, task, result) ==
    LET of_session == DictGet(store, s, EmptyDict)
        with_query == DictSet(of_session, q, DictGet(of_session, q, EmptyDict))
    IN  DictSet(store, s, [k \in DOMAIN with_query |-> DictSet(with_query[k], task, result)])

\* update_task_result: the store after self.task_store[session_id][query][task] = result
update_task_result(store, s, q, task, result) ==
    LET of_session == DictGet(store, s, EmptyDict)
        of_query   == DictGet(of_session, q, EmptyDict)
    IN  DictSet(store, s, DictSet(of_session, q, DictSet(of_query, task, result)))

\* get_all_task_results: self.task_store.get(session_id, {}).get(query, {})
get_all_task_results(store, s, q) ==
    DictGet(DictGet(store, s, EmptyDict), q, EmptyDict)

\* get_task_result: self.task_store.get(session_id, {}).get(query, {}).get(task)
get_task_result(store, s, q, task) ==
    LET of_query == get_all_task_results(store, s, q)
    IN  IF task \in DOMAIN of_query THEN Some(of_query[task]) ELSE None

\* A clear that deletes nothing
clear_session_none(store, s) == store

\* A clear that empties the whole store
clear_session_all(store, s) == EmptyDict

\* clear_session on one of the two stores: `del store[session_id]` when present
clear_session(store, s) == [k \in (DOMAIN store) \ {s} |-> store[k]]

(***************************************************************************)
(* json.dumps and json.loads as serialize and deserialize use them.        *)
(*                                                                         *)
(* A JSON text is [kind, val]:                                             *)
(*   "object"  val is the sequence of its members [key, value], in the     *)
(*             order they are written                                      *)
(*   "list", "number"  a JSON value that is no object                      *)
(*   "value"   val is a stored research_data or task result, whose parts   *)
(*             are str, list and dict with str keys                        *)
(*   "invalid" a text json.loads cannot decode                             *)
(* The keys of both stores are str (the parameters session_id, query and   *)
(* task of memory.py 22 and 51-57), which json.dumps writes unchanged.     *)
(***************************************************************************)

RECURSIVE json_dumps(_, _)

\* The members json.dumps writes for the dict d whose values are dicts
\* nested depth - 1 levels deep
RECURSIVE Members(_, _)
Members(d, depth) ==
    IF DOMAIN d = {} THEN <<>>
    ELSE LET k    == CHOOSE x \in DOMAIN d : TRUE
             rest == [x \in (DOMAIN d) \ {k} |-> d[x]]
         IN  <<[key |-> k, value |-> json_dumps(d[k], depth - 1)]>> \o Members(rest, depth)

json_dumps(v, depth) ==
    IF depth = 0 THEN [kind |-> "value", val |-> v]
    ELSE [kind |-> "object", val |-> Members(v, depth)]

\* json.loads of a decodable text: a dict for an object (a repeated key
\* keeps its last value), the list or number otherwise
RECURSIVE json_decode(_)

RECURSIVE FromMembers(_)
FromMembers(members) ==
    IF members = <<>> THEN EmptyDict
    ELSE LET m == members[Len(members)]
         IN  DictSet(FromMembers(SubSeq(members, 1, Len(members) - 1)),
                     m.key, json_decode(m.value))

json_decode(j) ==
    CASE j.kind = "object" -> FromMembers(j.val)
      [] j.kind = "value"  -> j.val
      [] OTHER             -> [py |-> j.kind, v |-> j.val]

\* A deserialize that reads both stores from the "research_store" member
deserialize_one_key(rs, ts, blob) ==
    LET data == json_decode(blob)
    IN  [research_store |-> DictGet(data, "research_store", EmptyDict),
         task_store     |-> DictGet(data, "research_store", EmptyDict),
         exc |-> "", printed |-> FALSE]

\* serialize: json.dumps({"research_store": ..., "task_store": ...})
serialize(rs, ts) ==
    [kind |-> "object",
     val  |-> <<[key |-> "research_store", value |-> json_dumps(rs, 2)],
                [key |-> "task_store", value |-> json_dumps(ts, 3)]>>]

\* deserialize (memory.py 146-151): the two stores after the call, the
\* exception that leaves it ("" when it returns) and whether it printed
\* "Error deserializing memory data".  rs and ts are the stores before.
deserialize(rs, ts, blob) ==
    IF blob.kind = "invalid"
    THEN \* json.loads raises json.JSONDecodeError, which is caught
         [research_store |-> rs, task_store |-> ts, exc |-> "", printed |-> TRUE]
    ELSE IF blob.kind # "object"
    THEN \* data.get on a list or a number, before any assignment
         [research_store |-> rs, task_store |-> ts, exc |-> "AttributeError",
          printed |-> FALSE]
    ELSE LET data == json_decode(blob)
         IN  [research_store |-> DictGet(data, "research_store", EmptyDict),
              task_store     |-> DictGet(data, "task_store", EmptyDict),
              exc |-> "", printed |-> FALSE]

-----------------------------------------------------------------------------
(***************************************************************************)
(* Model output and its parsing (_extract_json, json.loads)                *)
(*                                                                         *)
(* A model response is [text, obj]: text is the response as a sequence of  *)
(* tokens and obj the object its member list "m" decodes to.  Tokens:      *)
(*   "p" prose, "{" and "}" braces, "m" a well-formed member list,         *)
(*   "[" "]" an empty JSON array, "7" a JSON number.                       *)
(***************************************************************************)

\* text.find('{') + 1, and 0 for -1
Find(text, ch) ==
    IF \E i \in 1..Len(text) : text[i] = ch
    THEN CHOOSE i \in 1..Len(text) :
            text[i] = ch /\ \A j \in 1..(i - 1) : text[j] # ch
    ELSE 0

\* text.rfind('}') + 1, and 0 for -1
RFind(text, ch) ==
    IF \E i \in 1..Len(text) : text[i] = ch
    THEN CHOOSE i \in 1..Len(text) :
            text[i] = ch /\ \A j \in (i + 1)..Len(text) : text[j] # ch
    ELSE 0

\* An extraction that ends at the first '}'
_extract_json_first_close(text) ==
    LET start_idx == Find(text, "{")
        end_idx   == Find(text, "}")
    IN  IF start_idx # 0 /\ end_idx # 0 /\ start_idx < end_idx
        THEN SubSeq(text, start_idx, end_idx)
        ELSE text

\* ResearchPlanner._extract_json (planner.py 106-116)
_extract_json(text) ==
    LET start_idx == Find(text, "{")
        end_idx   == RFind(text, "}")
    IN  IF start_idx # 0 /\ end_idx # 0 /\ start_idx < end_idx
        THEN SubSeq(text, start_idx, end_idx)
        ELSE text

\* InformationRetriever._extract_json (retriever.py 220-230)
InformationRetriever_extract_json(text) ==
    LET start_idx == Find(text, "{")
        end_idx   == RFind(text, "}")
    IN  IF start_idx # 0 /\ end_idx # 0 /\ start_idx < end_idx
        THEN SubSeq(text, start_idx, end_idx)
        ELSE text

\* ContentAnalyzer._extract_json (analyzer.py 146-156)
ContentAnalyzer_extract_json(text) ==
    LET start_idx == Find(text, "{")
        end_idx   == RFind(text, "}")
    IN  IF start_idx # 0 /\ end_idx # 0 /\ start_idx < end_idx
        THEN SubSeq(text, start_idx, end_idx)
        ELSE text

\* json.loads(json_str): [kind, val] with kind "object" (val the dict),
\* "list" or "number" (a JSON value that is no object), or "JSONDecodeError".
json_loads(json_str, obj) ==
    CASE json_str = <<"{", "m", "}">> -> [kind |-> "object", val |-> obj]
      [] json_str = <<"{", "}">>      -> [kind |-> "object", val |-> EmptyDict]
      [] json_str = <<"[", "]">>      -> [kind |-> "list", val |-> EmptyDict]
      [] json_str = <<"7">>           -> [kind |-> "number", val |-> EmptyDict]
      [] OTHER                        -> [kind |-> "JSONDecodeError", val |-> EmptyDict]

\* The planner's parse of a response: json.loads(self._extract_json(response))
Parse(response) == json_loads(_extract_json(response.text), response.obj)

\* Response texts: unparseable prose, an embedded object, a bare object,
\* and two JSON values that are not objects.
GarbageText == <<"p">>

EmbeddedText == <<"p", "{", "m", "}", "p">>

ListText == <<"[", "]">>

NumberText == <<"7">>

-----------------------------------------------------------------------------
(***************************************************************************)
(* ResearchPlanner.create_research_plan (planner.py 44-104)                *)
(***************************************************************************)

\* A JSON array (a Python list) and the str "" in a place that holds either.
PyList(items) == [py |-> "list", v |-> items]

EmptyStr == [py |-> "str", v |-> <<>>]

\* `task in existing_research.get("results", {})`: membership of a str in the
\* value stored under "results".  The coordinator stores a list of TaskResult
\* dicts there, and a str equals no dict.
TaskInResults(task, stored_results) ==
    \E i \in 1..Len(stored_results) : FALSE

\* completed_tasks (planner.py 63-66): None when there is no existing research
completed_tasks(existing) ==
    IF existing = None THEN <<>>
    ELSE LET rec            == existing[1]
             existing_plan  == DictGet(rec, "plan", EmptyDict)
             existing_tasks == DictGet(existing_plan, "tasks", PyList(<<>>)).v
         IN  SelectSeq(existing_tasks,
                       LAMBDA task : TaskInResults(task, DictGet(rec, "results", <<>>)))

required_fields == <<"query_analysis", "context", "tasks", "approach">>

\* A fill that adds "tasks" only
FillFields_TasksOnly(plan, fields) ==
    IF "tasks" \in DOMAIN plan THEN plan ELSE DictSet(plan, "tasks", EmptyStr)

\* research_plan[field] = ""  for every required field that is absent
RECURSIVE FillFields(_, _)
FillFields(plan, fields) ==
    IF fields = <<>> THEN plan
    ELSE LET field == Head(fields)
             filled == IF field \in DOMAIN plan THEN plan
                       ELSE DictSet(plan, field, IF field = "tasks" THEN EmptyStr ELSE "")
         IN  FillFields(filled, Tail(fields))

\* A fallback plan of three tasks
FallbackPlan_ThreeTasks(q) ==
    [query_analysis |-> "Analysis of: " \o q,
     context        |-> "General context for the query",
     tasks          |-> PyList(<<"Research basic information about " \o q,
                                 "Analyze key aspects of " \o q,
                                 "Summarize findings about " \o q>>),
     approach       |-> "Systematic research of available information"]

\* The except json.JSONDecodeError branch (planner.py 91-103)
FallbackPlan(q) ==
    [query_analysis |-> "Analysis of: " \o q,
     context        |-> "General context for the query",
     tasks          |-> PyList(<<"Research basic information about " \o q,
                                 "Analyze key aspects of " \o q,
                                 "Investigate different perspectives on " \o q,
                                 "Summarize findings about " \o q>>),
     approach       |-> "Systematic research of available information"]

\* What create_research_plan does with the model's response (planner.py 78-103):
\* [exc, plan], exc "" when it returns plan.
create_research_plan(q, response) ==
    LET parsed == Parse(response)
    IN  CASE parsed.kind = "JSONDecodeError" -> [exc |-> "", plan |-> FallbackPlan(q)]
          [] parsed.kind = "object" ->
                [exc |-> "", plan |-> FillFields(parsed.val, required_fields)]
          [] OTHER -> \* a list or a number: research_plan[field] = "" fails
                [exc |-> "TypeError", plan |-> EmptyDict]

-----------------------------------------------------------------------------
(***************************************************************************)
(* JinaSearchProvider.rerank_results (retriever.py 26-84)                  *)
(***************************************************************************)

top_k == 5

\* [{"document": doc, "score": 1.0} for doc in documents[:top_k]]
Unscored(documents, k) ==
    [i \in 1..Min(k, Len(documents)) |-> [document |-> documents[i], score |-> 1]]

\* sum(q * d for q, d in zip(query_embedding, doc_embedding))
RECURSIVE Dot(_, _), InsertDesc_BeforeEqual(_, _)
Dot(qe, de) ==
    IF qe = <<>> \/ de = <<>> THEN 0
    ELSE Head(qe) * Head(de) + Dot(Tail(qe), Tail(de))

\* An insertion that puts an item before the items of equal score
InsertDesc_BeforeEqual(item, sorted) ==
    IF sorted = <<>> THEN <<item>>
    ELSE IF Head(sorted).score > item.score
         THEN <<Head(sorted)>> \o InsertDesc_BeforeEqual(item, Tail(sorted))
         ELSE <<item>> \o sorted

\* sorted(scores, key=score, reverse=True): stable, equal scores keep their order
RECURSIVE InsertDesc(_, _)
InsertDesc(item, sorted) ==
    IF sorted = <<>> THEN <<item>>
    ELSE IF Head(sorted).score >= item.score
         THEN <<Head(sorted)>> \o InsertDesc(item, Tail(sorted))
         ELSE <<item>> \o sorted

RECURSIVE SortedDesc(_)
SortedDesc(scores) ==
    IF scores = <<>> THEN <<>>
    ELSE InsertDesc(Last(scores), SortedDesc(SubSeq(scores, 1, Len(scores) - 1)))

\* service is what requests.post and response.json() give: [ok, embeddings];
\* ok FALSE is a network error, an error status or a malformed body.
rerank_results(api_key, documents, k, service) ==
    IF ~api_key \/ documents = <<>> THEN Unscored(documents, k)
    ELSE IF ~service.ok \/ service.embeddings = <<>>
              \/ Len(service.embeddings) - 1 > Len(documents)
         THEN \* except Exception: fallback to original order
              Unscored(documents, k)
         ELSE LET query_embedding == service.embeddings[1]
                  doc_embeddings  == Tail(service.embeddings)
                  scores == [i \in 1..Len(doc_embeddings) |->
                                [document |-> documents[i],
                                 score |-> Dot(query_embedding, doc_embeddings[i])]]
                  reranked == SortedDesc(scores)
              IN  SubSeq(reranked, 1, Min(k, Len(reranked)))

-----------------------------------------------------------------------------
(***************************************************************************)
(* InformationRetriever.retrieve_information (retriever.py 143-218)        *)
(***************************************************************************)

\* documents = [source.get("content", "") for source in sources]
Documents(sources) ==
    [i \in 1..Len(sources) |-> DictGet(sources[i], "content", <<>>)]

\* The index of the first source with source.get("content") == document, or 0
FirstMatch(sources, document) ==
    LET hit(i) == "content" \in DOMAIN sources[i] /\ sources[i].content = document
    IN  IF \E i \in 1..Len(sources) : hit(i)
        THEN CHOOSE i \in 1..Len(sources) : hit(i) /\ \A j \in 1..(i - 1) : ~hit(j)
        ELSE 0

\* The loop of retriever.py 188-195: [sources, picked].  It writes
\* relevance_score into the matched source dict itself and appends that same
\* dict, so a later match of the same dict changes every entry that holds it.
RECURSIVE Rematch(_, _, _)
Rematch(sources, picked, reranked_docs) ==
    IF reranked_docs = <<>> THEN [sources |-> sources, picked |-> picked]
    ELSE LET doc_info == Head(reranked_docs)
             i        == FirstMatch(sources, doc_info.document)
         IN  IF i = 0 THEN Rematch(sources, picked, Tail(reranked_docs))
             ELSE Rematch([sources EXCEPT ![i] =
                                 DictSet(@, "relevance_score", doc_info.score)],
                          Append(picked, i), Tail(reranked_docs))

\* reranked_sources as it is when the loop has ended
reranked_sources(sources, reranked_docs) ==
    LET done == Rematch(sources, <<>>, reranked_docs)
    IN  [n \in 1..Len(done.picked) |-> done.sources[done.picked[n]]]

\* A fallback whose source holds the whole response
FallbackRetrieval_WholeResponse(task, response) ==
    [search_queries |-> <<"Information about " \o task>>,
     sources |-> <<[title       |-> "Research on " \o task,
                    author      |-> "Various experts",
                    publication |-> "Research Journal",
                    year        |-> "Recent",
                    content     |-> <<"General information about " \o task \o ". ">>
                                    \o response.text,
                    url         |-> "https://example.com/research"]>>,
     key_points |-> <<"Basic information about " \o task>>,
     additional_search_areas |-> <<"More specific aspects of " \o task>>]

\* The except (json.JSONDecodeError, ValueError) branch (retriever.py 202-218)
FallbackRetrieval(task, response) ==
    [search_queries |-> <<"Information about " \o task>>,
     sources |-> <<[title       |-> "Research on " \o task,
                    author      |-> "Various experts",
                    publication |-> "Research Journal",
                    year        |-> "Recent",
                    content     |-> <<"General information about " \o task \o ". ">>
                                    \o SubSeq(response.text, 1, Min(500, Len(response.text))),
                    url         |-> "https://example.com/research"]>>,
     key_points |-> <<"Basic information about " \o task>>,
     additional_search_areas |-> <<"More specific aspects of " \o task>>]

\* A retriever that ranks whatever "sources" holds
retrieve_information_ranks_always(task, response, api_key, service) ==
    LET parsed  == Parse(response)
        sources == DictGet(parsed.val, "sources", <<>>)
    IN  [exc |-> "",
         val |-> DictSet(parsed.val, "sources",
                         reranked_sources(sources,
                             rerank_results(api_key, Documents(sources), top_k, service))),
         ranked |-> TRUE]

\* What retrieve_information does with the model's response: [exc, val, ranked];
\* ranked says whether rerank_results was called.
retrieve_information(task, response, api_key, service) ==
    LET parsed == json_loads(InformationRetriever_extract_json(response.text), response.obj)
    IN  CASE parsed.kind = "JSONDecodeError" ->
                [exc |-> "", val |-> FallbackRetrieval(task, response), ranked |-> FALSE]
          [] parsed.kind = "object" ->
                IF "sources" \in DOMAIN parsed.val /\ parsed.val.sources # <<>>
                THEN LET sources == parsed.val.sources
                         reranked_docs == rerank_results(api_key, Documents(sources),
                                                         top_k, service)
                     IN  [exc |-> "",
                          val |-> DictSet(parsed.val, "sources",
                                          reranked_sources(sources, reranked_docs)),
                          ranked |-> TRUE]
                ELSE [exc |-> "", val |-> parsed.val, ranked |-> FALSE]
          [] OTHER -> \* a list or a number has no .get
                [exc |-> "AttributeError", val |-> EmptyDict, ranked |-> FALSE]

-----------------------------------------------------------------------------
(***************************************************************************)
(* ContentAnalyzer.analyze_content (analyzer.py 59-144)                    *)
(***************************************************************************)

\* A placeholder that rates itself "low"
FallbackAnalysis_Low(task) ==
    [summary |-> "Analysis of information related to " \o task \o ".",
     key_insights |->
        <<[insight |-> "The information provides a general overview of the topic.",
           confidence |-> "low",
           supporting_evidence |-> "Multiple sources cover the basic aspects of the topic."]>>,
     themes |-> <<[theme |-> "General information",
                   description |-> "Basic background information about the topic."]>>,
     contradictions |-> <<>>,
     information_gaps |-> <<"More specific details needed">>,
     quality_assessment |->
        [overall_quality |-> "low",
         explanation |-> "The information is generally relevant but could be more comprehensive.",
         most_credible_sources |-> <<>>,
         questionable_sources |-> <<>>]]

\* The except (json.JSONDecodeError, ValueError) branch (analyzer.py 119-144)
FallbackAnalysis(task) ==
    [summary |-> "Analysis of information related to " \o task \o ".",
     key_insights |->
        <<[insight |-> "The information provides a general overview of the topic.",
           confidence |-> "medium",
           supporting_evidence |-> "Multiple sources cover the basic aspects of the topic."]>>,
     themes |-> <<[theme |-> "General information",
                   description |-> "Basic background information about the topic."]>>,
     contradictions |-> <<>>,
     information_gaps |-> <<"More specific details needed">>,
     quality_assessment |->
        [overall_quality |-> "medium",
         explanation |-> "The information is generally relevant but could be more comprehensive.",
         most_credible_sources |-> <<>>,
         questionable_sources |-> <<>>]]

\* What analyze_content returns for the model's response: [kind, val], kind
\* "object" for a dict and "list" or "number" for a decoded value that is none
\* (analyzer.py 114-117 returns whatever json.loads gave).
analyze_content(task, response) ==
    LET parsed == json_loads(ContentAnalyzer_extract_json(response.text), response.obj)
    IN  IF parsed.kind = "JSONDecodeError"
        THEN [kind |-> "object", val |-> FallbackAnalysis(task)]
        ELSE parsed

-----------------------------------------------------------------------------
(***************************************************************************)
(* DeepResearchAgent.assist (agent.py 48-99) and                           *)
(* ResearchCoordinator.conduct_research (coordinator.py 74-204)            *)
(*                                                                         *)
(* A run is suspended in the generate_response call of one stage; each     *)
(* action is that call's return (or failure) and all the run does up to    *)
(* its next generate_response call.  JinaSearchProvider.rerank_results     *)
(* calls requests.post, which does not suspend: the run is then "ranking"  *)
(* and holds the event loop until the call has ended.                      *)
(***************************************************************************)

Runs == {"r1", "r2"}

Sessions == {"s1"}

Queries == {"q1"}

RunStates == {"idle", "planning", "retrieving", "ranking", "analyzing", "reporting",
              "done", "completed", "aborted"}

\* Events of a run.  On the host's response handler:
\*   Block(name, n)  emit_text_block; ("TASK", 2) is TASK_2 and
\*                   ("TASK_RESULT", 2) is TASK_2_RESULT
\*   Open(name)      create_text_stream(name)
\*   Chunk(name, n)  emit_chunk on stream name (n: the chunk's index, 0 for
\*                   the plan stream)
\*   Close(name)     stream.complete()
\*   Complete        response_handler.complete()
\* Inside the run:
\*   Call(stage, n), Return(stage, n), Raise(stage, n)  a stage's call for
\*                   task n (0: no task), its return, an exception leaving it
\*   Memory(op, n)   update_task_result for task n, or store_research
Block(name, n) == <<"block", name, n>>

Open(name) == <<"open", name, 0>>

Chunk(name, n) == <<"chunk", name, n>>

Close(name) == <<"close", name, 0>>

Complete == <<"complete", "response", 0>>

Call(stage, n) == <<"call", stage, n>>

Return(stage, n) == <<"return", stage, n>>

Raise(stage, n) == <<"raise", stage, n>>

Memory(op, n) == <<"memory", op, n>>

PlanChunk == Chunk("RESEARCH_PLAN", 0)

\* The tasks the loop `for i, task in enumerate(research_plan["tasks"])` visits
TasksOf(plan) == plan.tasks.v

\* chunk_size of assist's call of _chunk_text
chunk_size == 100

\* A chunking that leaves out what follows the last full chunk
_chunk_text_full_only(text, size) ==
    [k \in 1..(Len(text) \div size) |-> SubSeq(text, (k - 1) * size + 1, k * size)]

\* _chunk_text: [text[i:i+chunk_size] for i in range(0, len(text), chunk_size)]
_chunk_text(text, size) ==
    [k \in 1..((Len(text) + size - 1) \div size) |->
        SubSeq(text, (k - 1) * size + 1, Min(k * size, Len(text)))]

\* timing_info: divmod(int(elapsed_time), 60) as <<minutes, seconds>>
timing_info(elapsed_time) == <<elapsed_time \div 60, elapsed_time % 60>>

\* A loop that numbers its tasks from 0 (task_number = i)
LoopStep_FromZero(plan, done) ==
    IF done < Len(TasksOf(plan))
    THEN [pc |-> "retrieving",
          events |-> <<Block("TASK", done), PlanChunk, PlanChunk,
                       Call("retriever", done + 1)>>]
    ELSE [pc |-> "reporting",
          events |-> <<Block("GENERATING_REPORT", 0), PlanChunk,
                       Call("report_generator", 0)>>]

\* A loop that calls the retriever twice for each task
LoopStep_RetrievesTwice(plan, done) ==
    IF done < Len(TasksOf(plan))
    THEN [pc |-> "retrieving",
          events |-> <<Block("TASK", done + 1), PlanChunk, PlanChunk,
                       Call("retriever", done + 1), Call("retriever", done + 1)>>]
    ELSE [pc |-> "reporting",
          events |-> <<Block("GENERATING_REPORT", 0), PlanChunk,
                       Call("report_generator", 0)>>]

\* A loop that leaves the last task of the plan out
LoopStep_StopsEarly(plan, done) ==
    IF done + 1 < Len(TasksOf(plan))
    THEN [pc |-> "retrieving",
          events |-> <<Block("TASK", done + 1), PlanChunk, PlanChunk,
                       Call("retriever", done + 1)>>]
    ELSE [pc |-> "reporting",
          events |-> <<Block("GENERATING_REPORT", 0), PlanChunk,
                       Call("report_generator", 0)>>]

\* Where the task loop goes when `done` tasks have been completed
\* (coordinator.py 121-133 and 170-177): the events up to the next
\* generate_response call, and the stage that makes it.
LoopStep(plan, done) ==
    IF done < Len(TasksOf(plan))
    THEN [pc |-> "retrieving",
          events |-> <<Block("TASK", done + 1), PlanChunk, PlanChunk,
                       Call("retriever", done + 1)>>]
    ELSE [pc |-> "reporting",
          events |-> <<Block("GENERATING_REPORT", 0), PlanChunk,
                       Call("report_generator", 0)>>]

\* An entry written before the analysis is there
TaskEntry_NoAnalysis(retrieval, analysis) == [retrieval_results |-> retrieval]

\* The dict given to memory.update_task_result (coordinator.py 165-168)
TaskEntry(retrieval, analysis) ==
    [retrieval_results |-> retrieval, analysis |-> analysis]

\* What follows a task's analysis (coordinator.py 147-168): the result
\* block, the plan chunk and the write of the task's result to memory.
TaskDoneEvents(n) ==
    <<Return("analyzer", n), Block("TASK_RESULT", n), PlanChunk,
      Memory("update_task_result", n)>>

\* An assist that signals completion before it closes the report stream
FinishEvents_CompleteFirst(report) ==
    <<Close("RESEARCH_PLAN"), Open("FINAL_REPORT")>>
    \o [k \in 1..Len(_chunk_text(report, chunk_size)) |-> Chunk("FINAL_REPORT", k)]
    \o <<Complete, Close("FINAL_REPORT")>>

\* What assist does once conduct_research returned (agent.py 83-99)
FinishEvents(report) ==
    <<Close("RESEARCH_PLAN"), Open("FINAL_REPORT")>>
    \o [k \in 1..Len(_chunk_text(report, chunk_size)) |-> Chunk("FINAL_REPORT", k)]
    \o <<Close("FINAL_REPORT"), Complete>>

\* A coordinator that announces prior research whatever memory holds
MemoryFoundEvents_Always(existing) == <<Block("MEMORY_FOUND", 0), PlanChunk>>

\* `if existing_research:` (coordinator.py 98-107): the MEMORY_FOUND block
\* and the plan chunk that follows it.  A stored record is a dict of five
\* keys, which is true.
MemoryFoundEvents(existing) ==
    IF existing # None THEN <<Block("MEMORY_FOUND", 0), PlanChunk>> ELSE <<>>

RunInit ==
    /\ research_store = EmptyDict
    /\ task_store = EmptyDict
    /\ pc = [r \in Runs |-> "idle"]
    /\ session_id = [r \in Runs |-> ""]
    /\ query = [r \in Runs |-> ""]
    /\ existing_research = [r \in Runs |-> None]
    /\ user_message = [r \in Runs |-> <<>>]
    /\ research_plan = [r \in Runs |-> None]
    /\ results = [r \in Runs |-> <<>>]
    /\ retrieval_results = [r \in Runs |-> None]
    /\ report_call = [r \in Runs |-> None]
    /\ returned = [r \in Runs |-> None]
    /\ error = [r \in Runs |-> ""]
    /\ events = [r \in Runs |-> <<>>]
    /\ streamed = [r \in Runs |-> <<>>]

\* Every run is a coroutine of the one event loop: it takes a step only when
\* no other run holds the loop.  A run inside requests.post (retriever.py 58)
\* holds it until the call has ended, for requests.post does not suspend.
EventLoopFree(r) == \A other \in Runs \ {r} : pc[other] # "ranking"

\* assist is called with (s, q): the greeting, the plan stream, then
\* conduct_research up to the planner's generate_response call
\* (agent.py 67-81, coordinator.py 94-111, planner.py 60-76).
Assist(r, s, q) ==
    /\ pc[r] = "idle"
    /\ EventLoopFree(r)
    /\ LET existing == get_research(research_store, s, q)
       IN  /\ existing_research' = [existing_research EXCEPT ![r] = existing]
           /\ user_message' = [user_message EXCEPT ![r] = completed_tasks(existing)]
           /\ events' = [events EXCEPT ![r] =
                  <<Block("GREETING", 0), Open("RESEARCH_PLAN")>>
                  \o MemoryFoundEvents(existing)
                  \o <<PlanChunk, Call("planner", 0)>>]
    /\ session_id' = [session_id EXCEPT ![r] = s]
    /\ query' = [query EXCEPT ![r] = q]
    /\ pc' = [pc EXCEPT ![r] = "planning"]
    /\ UNCHANGED <<genVars, apiVars, stageVars, memVars, research_plan, results, retrieval_results,
                   report_call, returned, error, streamed>>

\* An assist that closes the plan stream when the exception passes
Abort_ClosesPlan(r, stage, n, exc) ==
    /\ pc' = [pc EXCEPT ![r] = "aborted"]
    /\ error' = [error EXCEPT ![r] = exc]
    /\ events' = [events EXCEPT ![r] = @ \o <<Raise(stage, n), Close("RESEARCH_PLAN")>>]

\* The exception leaves conduct_research and assist: nothing handles it.
Abort(r, stage, n, exc) ==
    /\ pc' = [pc EXCEPT ![r] = "aborted"]
    /\ error' = [error EXCEPT ![r] = exc]
    /\ events' = [events EXCEPT ![r] = @ \o <<Raise(stage, n)>>]

\* The generate_response call the run is suspended in raises.
StageOf(state) ==
    CASE state = "planning"   -> "planner"
      [] state = "retrieving" -> "retriever"
      [] state = "analyzing"  -> "analyzer"
      [] OTHER                -> "report_generator"

TaskNumber(r) ==
    IF pc[r] \in {"retrieving", "analyzing"} THEN Len(results[r]) + 1 ELSE 0

GenerateRaises(r, exc) ==
    /\ pc[r] \in {"planning", "retrieving", "analyzing", "reporting"}
    /\ EventLoopFree(r)
    /\ Abort(r, StageOf(pc[r]), TaskNumber(r), exc)
    /\ UNCHANGED <<genVars, apiVars, stageVars, memVars, session_id, query, existing_research,
                   user_message, research_plan, results, retrieval_results,
                   report_call, returned, streamed>>

\* The arguments of generate_report (coordinator.py 177-181) when the loop
\* has ended, and nothing before
ReportCall(step, q, plan, task_results) ==
    IF step.pc = "reporting"
    THEN Some([query |-> q, research_plan |-> plan, task_results |-> task_results])
    ELSE None

\* The planner's generate_response call returns `response`
\* (planner.py 78-103, coordinator.py 113-133 or 170-177).
PlannerReturns(r, response) ==
    /\ pc[r] = "planning"
    /\ EventLoopFree(r)
    /\ LET made == create_research_plan(query[r], response)
           step == LoopStep(made.plan, 0)
       IN  IF made.exc # ""
           THEN /\ Abort(r, "planner", 0, made.exc)
                /\ UNCHANGED <<research_plan, report_call>>
           ELSE /\ research_plan' = [research_plan EXCEPT ![r] = Some(made.plan)]
                /\ report_call' = [report_call EXCEPT ![r] =
                       ReportCall(step, query[r], made.plan, <<>>)]
                /\ pc' = [pc EXCEPT ![r] = step.pc]
                /\ events' = [events EXCEPT ![r] =
                       @ \o <<Return("planner", 0), PlanChunk>> \o step.events]
                /\ UNCHANGED error
    /\ UNCHANGED <<genVars, apiVars, stageVars, memVars, session_id, query, existing_research,
                   user_message, results, retrieval_results, returned, streamed>>

\* rerank_results gets as far as requests.post: the model's output decoded to
\* an object with sources (retriever.py 180-184) and the ranker has a
\* credential (retriever.py 38)
ReachesRankingService(response, api_key) ==
    LET parsed == json_loads(InformationRetriever_extract_json(response.text), response.obj)
    IN  /\ api_key
        /\ parsed.kind = "object"
        /\ "sources" \in DOMAIN parsed.val
        /\ parsed.val.sources # <<>>

\* The retriever's generate_response call returns `response`; the ranker is
\* configured with or without a credential.  With sources to rank and a
\* credential the run goes into requests.post; otherwise retrieve_information
\* returns (retriever.py 174-218, coordinator.py 139-145).
RetrieverReturns(r, response, api_key) ==
    /\ pc[r] = "retrieving"
    /\ EventLoopFree(r)
    /\ LET n    == Len(results[r]) + 1
           task == TasksOf(research_plan[r][1])[n]
           got  == retrieve_information(task, response, api_key,
                                        [ok |-> FALSE, embeddings |-> <<>>])
       IN  IF ReachesRankingService(response, api_key)
           THEN /\ retrieval_results' = [retrieval_results EXCEPT ![r] =
                       Some(json_loads(InformationRetriever_extract_json(response.text),
                                       response.obj).val)]
                /\ pc' = [pc EXCEPT ![r] = "ranking"]
                /\ UNCHANGED <<error, events>>
           ELSE IF got.exc # ""
           THEN /\ Abort(r, "retriever", n, got.exc)
                /\ UNCHANGED retrieval_results
           ELSE /\ retrieval_results' = [retrieval_results EXCEPT ![r] = Some(got.val)]
                /\ pc' = [pc EXCEPT ![r] = "analyzing"]
                /\ events' = [events EXCEPT ![r] =
                       @ \o <<Return("retriever", n), PlanChunk, Call("analyzer", n)>>]
                /\ UNCHANGED error
    /\ UNCHANGED <<genVars, apiVars, stageVars, memVars, session_id, query, existing_research,
                   user_message, research_plan, results, report_call, returned, streamed>>

\* requests.post ends and the embedding service has answered `service`:
\* rerank_results and retrieve_information return, and the coordinator goes
\* on to the analyzer's generate_response call (retriever.py 58-84 and
\* 186-200, coordinator.py 139-145).
RankerAnswers(r, service) ==
    /\ pc[r] = "ranking"
    /\ LET n             == Len(results[r]) + 1
           decoded       == retrieval_results[r][1]
           reranked_docs == rerank_results(TRUE, Documents(decoded.sources), top_k, service)
       IN  /\ retrieval_results' = [retrieval_results EXCEPT ![r] =
                  Some(DictSet(decoded, "sources",
                               reranked_sources(decoded.sources, reranked_docs)))]
           /\ events' = [events EXCEPT ![r] =
                  @ \o <<Return("retriever", n), PlanChunk, Call("analyzer", n)>>]
    /\ pc' = [pc EXCEPT ![r] = "analyzing"]
    /\ UNCHANGED <<genVars, apiVars, stageVars, memVars, session_id, query, existing_research,
                   user_message, research_plan, results, report_call, returned, error,
                   streamed>>

\* The analyzer's generate_response call returns `response`
\* (analyzer.py 113-144, coordinator.py 147-168, then 121-133 or 170-177).
AnalyzerReturns(r, response) ==
    /\ pc[r] = "analyzing"
    /\ EventLoopFree(r)
    /\ LET n        == Len(results[r]) + 1
           plan     == research_plan[r][1]
           task     == TasksOf(plan)[n]
           analysis == analyze_content(task, response)
           result   == [task |-> task,
                        retrieval_results |-> retrieval_results[r][1],
                        analysis |-> analysis.val]
           step     == LoopStep(plan, n)
       IN  /\ results' = [results EXCEPT ![r] = Append(@, result)]
           /\ IF analysis.kind # "object"
              THEN \* analysis.get("summary", ...) on a list or a number
                   /\ pc' = [pc EXCEPT ![r] = "aborted"]
                   /\ error' = [error EXCEPT ![r] = "AttributeError"]
                   /\ events' = [events EXCEPT ![r] =
                          @ \o <<Return("analyzer", n), Raise("coordinator", n)>>]
                   /\ UNCHANGED <<task_store, retrieval_results, report_call>>
              ELSE /\ task_store' = update_task_result(task_store, session_id[r],
                          query[r], task,
                          TaskEntry(retrieval_results[r][1], analysis.val))
                   /\ retrieval_results' = [retrieval_results EXCEPT ![r] = None]
                   /\ report_call' = [report_call EXCEPT ![r] =
                          ReportCall(step, query[r], plan, Append(results[r], result))]
                   /\ pc' = [pc EXCEPT ![r] = step.pc]
                   /\ events' = [events EXCEPT ![r] =
                          @ \o TaskDoneEvents(n) \o step.events]
                   /\ UNCHANGED error
    /\ UNCHANGED <<genVars, apiVars, stageVars, research_store, session_id, query, existing_research,
                   user_message, research_plan, returned, streamed>>

\* A record that leaves the task results out
ResearchRecord_NoResults(q, plan, task_results, report, timing) ==
    [query |-> q, plan |-> plan, results |-> <<>>, report |-> report,
     timing |-> timing]

\* The record conduct_research stores and returns (coordinator.py 189-204)
ResearchRecord(q, plan, task_results, report, timing) ==
    [query |-> q, plan |-> plan, results |-> task_results, report |-> report,
     timing |-> timing]

\* The report generator's generate_response call returns `report`, after
\* elapsed_time seconds of the run; conduct_research stores the record and
\* returns it (report_generator.py 123-128, coordinator.py 183-204).
ReportReturns(r, report, elapsed_time) ==
    /\ pc[r] = "reporting"
    /\ EventLoopFree(r)
    /\ LET timing == timing_info(elapsed_time)
       IN  /\ research_store' = store_research(research_store, session_id[r], query[r],
                  ResearchRecord(query[r], research_plan[r][1], results[r], report, timing))
           /\ returned' = [returned EXCEPT ![r] = Some(
                  ResearchRecord(query[r], research_plan[r][1], results[r], report, timing))]
    /\ pc' = [pc EXCEPT ![r] = "done"]
    /\ events' = [events EXCEPT ![r] =
           @ \o <<Return("report_generator", 0), Memory("store_research", 0)>>]
    /\ UNCHANGED <<genVars, apiVars, stageVars, task_store, session_id, query, existing_research,
                   user_message, research_plan, results, retrieval_results,
                   report_call, error, streamed>>

\* assist streams the report and completes the response (agent.py 83-99).
AssistFinish(r) ==
    /\ pc[r] = "done"
    /\ EventLoopFree(r)
    /\ streamed' = [streamed EXCEPT ![r] = _chunk_text(returned[r][1].report, chunk_size)]
    /\ events' = [events EXCEPT ![r] = @ \o FinishEvents(returned[r][1].report)]
    /\ pc' = [pc EXCEPT ![r] = "completed"]
    /\ UNCHANGED <<genVars, apiVars, stageVars, memVars, session_id, query, existing_research,
                   user_message, research_plan, results, retrieval_results,
                   report_call, returned, error>>

-----------------------------------------------------------------------------
(***************************************************************************)
(* The environment: what the model, the ranking service and the clock      *)
(* give.                                                                   *)
(***************************************************************************)

\* Longest list "t1", ..., "tn" of distinct tasks in a plan the model writes
\* (the fallback plan has 4 distinct tasks).
MaxTasks == 1

\* Task lists the model writes: "t1", ..., "tn" for every n up to MaxTasks,
\* and one that repeats a task.
TaskLists ==
    {[i \in 1..n |-> "t" \o ToString(i)] : n \in 0..MaxTasks} \cup {<<"t1", "t1">>}

\* Plan objects the model writes: complete ones, and one that lacks
\* context, tasks and approach.
PlanObjects ==
    {[query_analysis |-> "analysis", context |-> "context",
      tasks |-> PyList(ts), approach |-> "approach"] : ts \in TaskLists}
    \cup {[query_analysis |-> "analysis"]}

ModelSource ==
    [title |-> "title", author |-> "author", publication |-> "publication",
     year |-> "2024", content |-> <<"content">>, url |-> "url"]

RetrievalObject ==
    [search_queries |-> <<"search">>, sources |-> <<ModelSource>>,
     key_points |-> <<"point">>, additional_search_areas |-> <<"area">>]

AnalysisObject ==
    [summary |-> "summary", key_insights |-> <<>>, themes |-> <<>>,
     contradictions |-> <<>>, information_gaps |-> <<>>,
     quality_assessment |-> [overall_quality |-> "high"]]

Garbage == [text |-> GarbageText, obj |-> EmptyDict]

NonObjects == {[text |-> ListText, obj |-> EmptyDict],
               [text |-> NumberText, obj |-> EmptyDict]}

PlannerResponses ==
    {Garbage} \cup NonObjects \cup {[text |-> EmbeddedText, obj |-> o] : o \in PlanObjects}

RetrieverResponses ==
    {Garbage} \cup NonObjects \cup {[text |-> EmbeddedText, obj |-> RetrievalObject]}

AnalyzerResponses ==
    {Garbage} \cup NonObjects \cup {[text |-> EmbeddedText, obj |-> AnalysisObject]}

\* The model is in one condition while a task is worked on: when its
\* retrieval response was unparseable prose, so is its analysis response, and
\* when it wrote a retrieval object it writes an analysis object.  A JSON
\* value that is no object can come at any time.
AnalyzerResponsesFor(r) ==
    IF pc[r] # "analyzing" THEN {}
    ELSE LET task == TasksOf(research_plan[r][1])[Len(results[r]) + 1]
         IN  IF retrieval_results[r] = Some(FallbackRetrieval(task, Garbage))
             THEN {Garbage} \cup NonObjects
             ELSE AnalyzerResponses \ {Garbage}

\* The ranking service is down; the ranker has a credential or none.
RankerServices == {[ok |-> FALSE, embeddings |-> <<>>]}

ReportTexts == {<<"report">>}

\* Seconds a run takes (time.time() - start_time)
RunSecs == {75}

\* What a failed generate_response call raises (see SpecGen)
GenerateErrors == {"HTTPStatusError"}

-----------------------------------------------------------------------------
(***************************************************************************)
(* A caller of ResearchMemory's methods (memory.py 22-151)                 *)
(***************************************************************************)

\* Calls the caller makes
MaxCalls == 4

MemSessions == {"s1", "s2"}

MemQueries == {"q1", "q2"}

MemTasks == {"t1", "t2"}

\* research_data values: two records of the shape the coordinator stores
ResearchData(q) ==
    {ResearchRecord(q, FallbackPlan(q), <<>>, report, timing_info(75)) :
        report \in {<<"report">>, <<"other">>}}

\* A task result of the shape the coordinator stores
TaskResultData == [retrieval_results |-> RetrievalObject, analysis |-> AnalysisObject]

\* Strings given to deserialize that no serialize call wrote: text that is
\* not JSON, a JSON list, an object with neither store, and an object with
\* an empty research_store and no task_store.
NotJsonBlob == [kind |-> "invalid", val |-> <<>>]

ListBlob == [kind |-> "list", val |-> <<>>]

NoStoresBlob == [kind |-> "object", val |-> <<>>]

NoTaskStoreBlob ==
    [kind |-> "object",
     val  |-> <<[key |-> "research_store", value |-> [kind |-> "object", val |-> <<>>]]>>]

ForeignBlobs == {NotJsonBlob, ListBlob, NoStoresBlob, NoTaskStoreBlob}

\* The record of a method call: its name, its arguments ("" or <<>> for the
\* ones it has not), the exception that left it and whether it printed.
ApiCall(name, s, q, task, arg, exc, printed) ==
    [name |-> name, s |-> s, q |-> q, task |-> task, arg |-> arg, exc |-> exc,
     printed |-> printed]

MemApiInit ==
    /\ api_call = ApiCall("", "", "", "", None, "", FALSE)
    /\ data_str = None
    /\ api_calls = 0

StoreResearch(s, q, research_data) ==
    /\ api_calls < MaxCalls
    /\ research_store' = store_research(research_store, s, q, research_data)
    /\ api_call' = ApiCall("store_research", s, q, "", Some(research_data), "", FALSE)
    /\ api_calls' = api_calls + 1
    /\ UNCHANGED <<genVars, runVars, stageVars, task_store, data_str>>

UpdateTaskResult(s, q, task, result) ==
    /\ api_calls < MaxCalls
    /\ task_store' = update_task_result(task_store, s, q, task, result)
    /\ api_call' = ApiCall("update_task_result", s, q, task, Some(result), "", FALSE)
    /\ api_calls' = api_calls + 1
    /\ UNCHANGED <<genVars, runVars, stageVars, research_store, data_str>>

ClearSession(s) ==
    /\ api_calls < MaxCalls
    /\ research_store' = clear_session(research_store, s)
    /\ task_store' = clear_session(task_store, s)
    /\ api_call' = ApiCall("clear_session", s, "", "", None, "", FALSE)
    /\ api_calls' = api_calls + 1
    /\ UNCHANGED <<genVars, runVars, stageVars, data_str>>

Serialize ==
    /\ api_calls < MaxCalls
    /\ data_str' = Some(serialize(research_store, task_store))
    /\ api_call' = ApiCall("serialize", "", "", "", None, "", FALSE)
    /\ api_calls' = api_calls + 1
    /\ UNCHANGED <<genVars, runVars, stageVars, memVars>>

\* deserialize(blob): blob is a string a serialize call returned before, or a
\* foreign one
Deserialize(blob) ==
    /\ api_calls < MaxCalls
    /\ LET after == deserialize(research_store, task_store, blob)
       IN  /\ research_store' = after.research_store
           /\ task_store' = after.task_store
           /\ api_call' = ApiCall("deserialize", "", "", "", Some(blob), after.exc,
                                  after.printed)
    /\ api_calls' = api_calls + 1
    /\ UNCHANGED <<genVars, runVars, stageVars, data_str>>

MemNext ==
    \/ \E s \in MemSessions, q \in MemQueries : \E research_data \in ResearchData(q) :
            StoreResearch(s, q, research_data)
    \/ \E s \in MemSessions, q \in MemQueries, task \in MemTasks :
            UpdateTaskResult(s, q, task, TaskResultData)
    \/ \E s \in MemSessions : ClearSession(s)
    \/ Serialize
    \/ \E i \in 1..Len(data_str) : Deserialize(data_str[i])
    \/ \E blob \in ForeignBlobs : Deserialize(blob)

-----------------------------------------------------------------------------
(***************************************************************************)
(* Single calls of ResearchPlanner.create_research_plan (planner.py 44-104),*)
(* InformationRetriever.retrieve_information (retriever.py 143-218),       *)
(* ContentAnalyzer.analyze_content (analyzer.py 59-144),                   *)
(* JinaSearchProvider.rerank_results (retriever.py 26-84) and the stages'  *)
(* _extract_json                                                           *)
(***************************************************************************)

StageQueries == {"q1", "q2"}

StageTasks == {"t1", "t2"}

\* More response texts: a bare object, braces around text that is no JSON,
\* a '}' before the only '{', and an empty object.
BareText == <<"{", "m", "}">>

BrokenText == <<"p", "{", "p", "}">>

ReversedText == <<"}", "p", "{">>

EmptyObjectText == <<"p", "{", "}">>

StageTexts == {GarbageText, EmbeddedText, BareText, BrokenText, ReversedText,
               EmptyObjectText, ListText, NumberText}

\* Retrieval objects without a "sources" member and with an empty one
NoSourcesObject ==
    [search_queries |-> <<"search">>, key_points |-> <<"point">>,
     additional_search_areas |-> <<"area">>]

EmptySourcesObject ==
    [search_queries |-> <<"search">>, sources |-> <<>>,
     key_points |-> <<"point">>, additional_search_areas |-> <<"area">>]

StagePlannerResponses == {[text |-> t, obj |-> o] : t \in StageTexts, o \in PlanObjects}

\* Prose one character longer than the 500 the fallback source keeps
LongText == [i \in 1..501 |-> "p"]

\* Source lists of two: different contents, the same content twice, and a
\* source without "content" before one that has it
StageSourceLists ==
    {<<ModelSource, [ModelSource EXCEPT !.title = "other", !.content = <<"other content">>]>>,
     <<ModelSource, [ModelSource EXCEPT !.title = "other"]>>,
     <<[title |-> "untitled", url |-> "url"], ModelSource>>}

StageRetrieverResponses ==
    {[text |-> t, obj |-> o] :
        t \in StageTexts, o \in {RetrievalObject, NoSourcesObject, EmptySourcesObject}}
    \cup {[text |-> LongText, obj |-> NoSourcesObject]}
    \cup {[text |-> EmbeddedText, obj |-> [RetrievalObject EXCEPT !.sources = l]] :
            l \in StageSourceLists}

StageAnalyzerResponses == {[text |-> t, obj |-> AnalysisObject] : t \in StageTexts}

\* Document lists given to rerank_results, and its top_k
StageDocuments ==
    {SubSeq(<<<<"d1">>, <<"d2">>, <<"d3">>>>, 1, n) : n \in 0..3}

StageTopK == {0, 1, 2, top_k}

\* What the embedding service answers: it fails (a network error, an error
\* status, a body without "data"), or its body holds the first n of the
\* embeddings of the query and of three documents, and one more.
StageEmbeddings == <<<<1, 2>>, <<3, 4>>, <<1, 0>>, <<5, 5>>, <<0, 1>>>>

RankerStageServices ==
    RankerServices \cup
    {[ok |-> TRUE, embeddings |-> SubSeq(StageEmbeddings, 1, n)] : n \in 0..5}
    \cup {[ok |-> TRUE, embeddings |-> e] :
            e \in {<<<<1, 2>>, <<3, 4>>, <<5, 3>>, <<1, 5>>>>,
                   <<<<1, 2>>, <<1, 0>>, <<3, 4>>, <<5, 3>>>>}}

\* The texts _extract_json is applied to: every text of up to MaxTextLen
\* characters that are a letter or a brace
MaxTextLen == 4

ExtractTexts == UNION {[1..n -> {"p", "{", "}"}] : n \in 0..MaxTextLen}

\* The ranking service is down, or answers the embeddings of the task and
\* of one document, or of two documents of which the second scores higher.
StageServices ==
    RankerServices \cup {[ok |-> TRUE, embeddings |-> <<<<1, 2>>, <<3, 4>>>>],
                         [ok |-> TRUE, embeddings |-> <<<<1, 2>>, <<1, 0>>, <<3, 4>>>>]}

StageCall(stage, subject, response, api_key, service) ==
    [stage |-> stage, subject |-> subject, response |-> response, api_key |-> api_key,
     service |-> service]

StageInit ==
    /\ stage_call = StageCall("", "", Garbage, FALSE, [ok |-> FALSE, embeddings |-> <<>>])
    /\ stage_result = None

\* create_research_plan(q, None) when the model answers `response`
PlannerCall(q, response) ==
    /\ stage_call' = StageCall("planner", q, response, FALSE,
                               [ok |-> FALSE, embeddings |-> <<>>])
    /\ stage_result' = Some(create_research_plan(q, response))
    /\ UNCHANGED <<genVars, memVars, runVars, apiVars>>

\* retrieve_information(task, context) when the model answers `response`
RetrieverCall(task, response, api_key, service) ==
    /\ stage_call' = StageCall("retriever", task, response, api_key, service)
    /\ stage_result' = Some(retrieve_information(task, response, api_key, service))
    /\ UNCHANGED <<genVars, memVars, runVars, apiVars>>

\* analyze_content(task, retrieval_results, context) when the model answers
\* `response`
AnalyzerCall(task, response) ==
    /\ stage_call' = StageCall("analyzer", task, response, FALSE,
                               [ok |-> FALSE, embeddings |-> <<>>])
    /\ stage_result' = Some(analyze_content(task, response))
    /\ UNCHANGED <<genVars, memVars, runVars, apiVars>>

\* rerank_results(query, documents, k) when the embedding service answers
\* `service`
RankerCall(q, documents, k, api_key, service) ==
    /\ stage_call' = [documents |-> documents, top_k |-> k]
                      @@ StageCall("ranker", q, Garbage, api_key, service)
    /\ stage_result' = Some(rerank_results(api_key, documents, k, service))
    /\ UNCHANGED <<genVars, memVars, runVars, apiVars>>

\* Reports of 0 to 250 characters, in which equal characters are 7 apart
StageReports ==
    {[i \in 1..n |-> <<"a", "b", "c", "d", "e", "f", "g">>[(i % 7) + 1]] :
        n \in {0, 1, 99, 100, 101, 200, 250}}

\* assist streams `report` once conduct_research returned it (agent.py 83-99)
ChunkCall(report) ==
    /\ stage_call' = StageCall("_chunk_text", "", [text |-> report, obj |-> EmptyDict],
                               FALSE, [ok |-> FALSE, embeddings |-> <<>>])
    /\ stage_result' = Some([chunks |-> _chunk_text(report, chunk_size),
                             events |-> FinishEvents(report)])
    /\ UNCHANGED <<genVars, memVars, runVars, apiVars>>

\* _extract_json(text) of each of the three stages
ExtractCall(text) ==
    /\ stage_call' = StageCall("_extract_json", "", [text |-> text, obj |-> EmptyDict],
                               FALSE, [ok |-> FALSE, embeddings |-> <<>>])
    /\ stage_result' = Some([planner   |-> _extract_json(text),
                             retriever |-> InformationRetriever_extract_json(text),
                             analyzer  |-> ContentAnalyzer_extract_json(text)])
    /\ UNCHANGED <<genVars, memVars, runVars, apiVars>>

StageNext ==
    \/ \E q \in StageQueries, response \in StagePlannerResponses : PlannerCall(q, response)
    \/ \E task \in StageTasks, response \in StageRetrieverResponses, api_key \in BOOLEAN,
          service \in StageServices :
            RetrieverCall(task, response, api_key, service)
    \/ \E task \in StageTasks, response \in StageAnalyzerResponses :
            AnalyzerCall(task, response)
    \/ \E q \in StageQueries, documents \in StageDocuments, k \in StageTopK,
          api_key \in BOOLEAN, service \in RankerStageServices :
            RankerCall(q, documents, k, api_key, service)
    \/ \E text \in ExtractTexts : ExtractCall(text)
    \/ \E report \in StageReports : ChunkCall(report)

Init == GenInit /\ RunInit /\ MemApiInit /\ StageInit

Next ==
    \/ \E r \in Runs, s \in Sessions, q \in Queries : Assist(r, s, q)
    \/ \E r \in Runs, exc \in GenerateErrors : GenerateRaises(r, exc)
    \/ \E r \in Runs, response \in PlannerResponses : PlannerReturns(r, response)
    \/ \E r \in Runs, response \in RetrieverResponses, api_key \in BOOLEAN :
            RetrieverReturns(r, response, api_key)
    \/ \E r \in Runs, service \in RankerServices : RankerAnswers(r, service)
    \/ \E r \in Runs : \E response \in AnalyzerResponsesFor(r) :
            AnalyzerReturns(r, response)
    \/ \E r \in Runs, report \in ReportTexts, secs \in RunSecs :
            ReportReturns(r, report, secs)
    \/ \E r \in Runs : AssistFinish(r)

\* Two runs that are called with different (session, query) keys: the second
\* one with another query of the first one's session, or with the same query
\* in another session.
RunKeys(r) ==
    IF r = "r1" THEN {<<"s1", "q1">>} ELSE {<<"s1", "q2">>, <<"s2", "q1">>}

NextKeys ==
    \/ \E r \in Runs : \E key \in RunKeys(r) : Assist(r, key[1], key[2])
    \/ \E r \in Runs, exc \in GenerateErrors : GenerateRaises(r, exc)
    \/ \E r \in Runs, response \in PlannerResponses : PlannerReturns(r, response)
    \/ \E r \in Runs, response \in RetrieverResponses, api_key \in BOOLEAN :
            RetrieverReturns(r, response, api_key)
    \/ \E r \in Runs, service \in RankerServices : RankerAnswers(r, service)
    \/ \E r \in Runs : \E response \in AnalyzerResponsesFor(r) :
            AnalyzerReturns(r, response)
    \/ \E r \in Runs, report \in ReportTexts, secs \in RunSecs :
            ReportReturns(r, report, secs)
    \/ \E r \in Runs : AssistFinish(r)

Spec == Init /\ [][Next]_vars

SpecKeys == Init /\ [][NextKeys]_vars

SpecGen == Init /\ [][GenNext]_vars

SpecMem == Init /\ [][MemNext]_vars

SpecStage == Init /\ [][StageNext]_vars

\* One generate_response call and one run, whose network requests all end:
\* the endpoint answers or the request times out, the ranking service
\* answers, and a sleep returns.
LiveAnswers ==
    {a \in EndpointAnswers :
        a.secs \in {1, request_timeout} /\ a.body \in {"text", "empty", "error", "timeout"}}

LiveRuns == {"r1"}

\* The step that ends what run r awaits: a generate_response call returns or
\* raises, the ranking service answers, or the report is streamed
RunStep(r) ==
    \/ \E exc \in GenerateErrors : GenerateRaises(r, exc)
    \/ \E response \in PlannerResponses : PlannerReturns(r, response)
    \/ \E response \in RetrieverResponses, api_key \in BOOLEAN :
            RetrieverReturns(r, response, api_key)
    \/ \E service \in RankerServices : RankerAnswers(r, service)
    \/ \E response \in AnalyzerResponsesFor(r) : AnalyzerReturns(r, response)
    \/ \E report \in ReportTexts, secs \in RunSecs : ReportReturns(r, report, secs)
    \/ AssistFinish(r)

NextLive ==
    \/ GenCall
    \/ \E answer \in LiveAnswers : GenAnswer(answer)
    \/ GenWake
    \/ \E r \in LiveRuns : \E key \in RunKeys(r) : Assist(r, key[1], key[2])
    \/ \E r \in LiveRuns, exc \in GenerateErrors : GenerateRaises(r, exc)
    \/ \E r \in LiveRuns, response \in PlannerResponses : PlannerReturns(r, response)
    \/ \E r \in LiveRuns, response \in RetrieverResponses, api_key \in BOOLEAN :
            RetrieverReturns(r, response, api_key)
    \/ \E r \in LiveRuns, service \in RankerServices : RankerAnswers(r, service)
    \/ \E r \in LiveRuns : \E response \in AnalyzerResponsesFor(r) :
            AnalyzerReturns(r, response)
    \/ \E r \in LiveRuns, report \in ReportTexts, secs \in RunSecs :
            ReportReturns(r, report, secs)
    \/ \E r \in LiveRuns : AssistFinish(r)

\* Fairness: a request in flight ends, a sleep returns, and the event loop
\* resumes a run whose awaited call has ended.  Whether a call or a run is
\* started at all is left open.
SpecLive ==
    /\ Init /\ [][NextLive]_vars
    /\ WF_vars(\E answer \in LiveAnswers : GenAnswer(answer))
    /\ WF_vars(GenWake)
    /\ \A r \in LiveRuns : WF_vars(RunStep(r))

-----------------------------------------------------------------------------
(***************************************************************************)
(* Properties of the coordinator (checked under Spec)                      *)
(***************************************************************************)

IsPrefix(a, b) == Len(a) <= Len(b) /\ SubSeq(b, 1, Len(a)) = a

PlanOf(r) == research_plan[r][1]

\* Number of tasks of the run's plan
NTasks(r) == Len(TasksOf(PlanOf(r)))

IsTaskOrReportEvent(e) ==
    \/ e[1] = "block" /\ e[2] \in {"TASK", "TASK_RESULT"}
    \/ e[1] = "open" /\ e[2] = "FINAL_REPORT"

\* TASK_1, TASK_1_RESULT, ..., TASK_N, TASK_N_RESULT, then the report stream
ExpectedBlocks(N) ==
    [k \in 1..(2 * N) |-> IF k % 2 = 1 THEN Block("TASK", (k + 1) \div 2)
                                        ELSE Block("TASK_RESULT", k \div 2)]
    \o <<Open("FINAL_REPORT")>>

\* C1: a completed run with a plan of N tasks has emitted exactly the blocks
\* TASK_1, TASK_1_RESULT, ..., TASK_N, TASK_N_RESULT, in this order, and has
\* opened exactly one FINAL_REPORT stream, after TASK_N_RESULT.
C1_TaskBlocksInterleaved ==
    \A r \in Runs :
        pc[r] = "completed" =>
            SelectSeq(events[r], IsTaskOrReportEvent) = ExpectedBlocks(NTasks(r))

C1_Witness ==
    \E r \in Runs : pc[r] = "completed" /\ NTasks(r) = 4

IsInternalEvent(e) == e[1] \in {"call", "return", "raise", "memory"}

TaskTrace(i) ==
    <<Call("retriever", i), Return("retriever", i), Call("analyzer", i),
      Return("analyzer", i), Memory("update_task_result", i)>>

RECURSIVE TasksTrace(_)
TasksTrace(n) == IF n = 0 THEN <<>> ELSE TasksTrace(n - 1) \o TaskTrace(n)

RunTrace(N) ==
    <<Call("planner", 0), Return("planner", 0)>> \o TasksTrace(N)
    \o <<Call("report_generator", 0), Return("report_generator", 0),
         Memory("store_research", 0)>>

\* The calls, returns and memory writes of a run, without the exception that
\* ended it
CallsOf(r) ==
    LET t == SelectSeq(events[r], IsInternalEvent)
    IN  IF t # <<>> /\ Last(t)[1] = "raise" THEN SubSeq(t, 1, Len(t) - 1) ELSE t

\* C2: the tasks of a run execute one after the other in plan order: the
\* Analyzer call of task i starts after the Retriever call of task i returned,
\* and the Retriever call of task i+1 starts after the Analyzer call of task
\* i returned and the result of task i was written to Session Memory (where
\* an entry for the task is then held).
C2_TasksSequential ==
    \A r \in Runs :
        /\ IsPrefix(CallsOf(r),
                    RunTrace(IF research_plan[r] = None THEN 0 ELSE NTasks(r)))
        /\ \A i \in 1..Len(events[r]) :
              events[r][i][1] = "memory" /\ events[r][i][2] = "update_task_result"
              => TasksOf(PlanOf(r))[events[r][i][3]] \in
                    DOMAIN get_all_task_results(task_store, session_id[r], query[r])

C2_Witness ==
    \E r \in Runs :
        /\ pc[r] = "retrieving"
        /\ Len(results[r]) = 1
        /\ Last(events[r]) = Call("retriever", 2)

\* C3: when conduct_research returns, Session Memory holds under the run's
\* (session, query) the record it returns, made of the run's query, plan and
\* results.
C3_DoneStoresReturnedRecord ==
    [][\A r \in Runs :
          pc[r] = "reporting" /\ pc'[r] = "done" =>
              /\ returned'[r] # None
              /\ get_research(research_store', session_id[r], query[r]) = returned'[r]
              /\ returned'[r][1].query = query[r]
              /\ returned'[r][1].plan = PlanOf(r)
              /\ returned'[r][1].results = results[r]]_vars

\* A run in which the planner, every retrieval and every analysis fell back
AllFellBack(r) ==
    /\ PlanOf(r) = FallbackPlan(query[r])
    /\ Len(results[r]) = 4
    /\ \A i \in 1..4 :
          /\ results[r][i].retrieval_results =
                 FallbackRetrieval(TasksOf(PlanOf(r))[i], Garbage)
          /\ results[r][i].analysis = FallbackAnalysis(TasksOf(PlanOf(r))[i])

C3_Witness ==
    \E r \in Runs :
        /\ pc[r] = "done"
        /\ AllFellBack(r)
        /\ get_research(research_store, session_id[r], query[r]) = returned[r]

\* C4 (as claimed): a run that does not complete was aborted by an error
\* raised by a generate_response call, and has returned and stored nothing.
C4_AbortOnlyByGenerate ==
    \A r \in Runs :
        pc[r] = "aborted" => error[r] \in GenerateErrors /\ returned[r] = None

\* Exceptions raised while the decoded model output is used
DecodeErrors == {"TypeError", "AttributeError"}

\* C5 (as claimed): no stage lets an error of handling malformed model
\* output reach the coordinator: no run ends with such an error.
C5_MalformedOutputRecovered ==
    \A r \in Runs : error[r] \notin DecodeErrors

-----------------------------------------------------------------------------
(***************************************************************************)
(* Properties of generate_response (checked under SpecGen)                 *)
(***************************************************************************)

\* The sleeps the claims name: 2 s before the 2nd request, 4 s before the 3rd
BackoffSecs == <<2, 4>>

\* C6: every HTTP 429 is answered within a budget of 3 attempts: at most 3
\* requests are issued, a 429 on the 1st attempt is followed by a sleep of
\* 2 s, one on the 2nd by a sleep of 4 s, and one on the 3rd by no sleep: the
\* call fails.
C6_RateLimitBackoff ==
    /\ requests <= 3
    /\ \A i \in 1..Len(outcomes) :
          outcomes[i].code = 429 =>
              /\ i <= 3
              /\ i < 3 => Len(sleeps) >= i /\ sleeps[i] = BackoffSecs[i]
              /\ i = 3 => genPc = "raised" /\ sleeps = BackoffSecs

C6_Witness ==
    /\ genPc = "raised"
    /\ Len(outcomes) = 3
    /\ \A i \in 1..3 : outcomes[i].code = 429
    /\ sleeps = <<2, 4>>

\* C7: an error status other than 429 ends the call on the attempt that
\* received it: it is the last outcome, the call has failed with it, and no
\* request and no sleep follow it.
C7_OtherStatusFailsAtOnce ==
    \A i \in 1..Len(outcomes) :
        outcomes[i].kind = "status" /\ outcomes[i].code # 429 =>
            /\ i = Len(outcomes)
            /\ genPc = "raised"
            /\ raised = "HTTPStatusError"
            /\ requests = i
            /\ Len(sleeps) = i - 1

C7_Witness ==
    /\ genPc = "raised"
    /\ Len(outcomes) = 2
    /\ outcomes[1].code = 429
    /\ outcomes[2].code = 500

Retryable(answer) == answer.code = 429 \/ answer.kind = "connfail"

\* C8 (as claimed): when every attempt of the budget failed with a 429 or a
\* connection failure, the error that leaves the call names the attempts.
C8_ExhaustionNamesAttempts ==
    (/\ genPc = "raised"
     /\ Len(outcomes) = 3
     /\ \A i \in 1..3 : Retryable(outcomes[i]))
    => raised = "Failed to get response from Fireworks.ai API after 3 attempts"

\* C9: a connection failure is retried like a 429: at most 3 requests, a
\* sleep of 2 s after a failure of the 1st attempt and of 4 s after one of
\* the 2nd, and the failure leaves the call only from the 3rd attempt.
C9_ConnectionFailureBackoff ==
    /\ requests <= 3
    /\ \A i \in 1..Len(outcomes) :
          outcomes[i].kind = "connfail" =>
              /\ i <= 3
              /\ i < 3 => Len(sleeps) >= i /\ sleeps[i] = BackoffSecs[i]
              /\ i = 3 => genPc = "raised" /\ raised = "RequestError"
    /\ (genPc = "raised" /\ raised = "RequestError") => Len(outcomes) = 3

C9_Witness ==
    /\ genPc = "raised"
    /\ raised = "RequestError"
    /\ \A i \in 1..3 : outcomes[i].kind = "connfail"
    /\ sleeps = <<2, 4>>

\* C10 (as claimed): a call never lasts longer than the 60 s timeout.
C10_CallWithinTimeout == elapsed <= 60

\* C10 (amended): the 60 s timeout bounds each request, not the call: a call
\* lasts at most 3 requests of 60 s and the sleeps of 2 s and 4 s, 186 s.
C10_CallWithinRetryBudget ==
    /\ \A i \in 1..Len(outcomes) : outcomes[i].secs <= 60
    /\ elapsed <= 3 * 60 + 2 + 4

C10_Witness ==
    /\ genPc = "raised"
    /\ elapsed = 186

-----------------------------------------------------------------------------
(***************************************************************************)
(* Properties of ResearchMemory (checked under SpecMem)                    *)
(***************************************************************************)

SavedStores == deserialize(EmptyDict, EmptyDict, data_str[1])

C12_IndependentMappings ==
    [][/\ api_call'.name = "store_research" =>
              /\ task_store' = task_store
              /\ \A s \in MemSessions, q \in MemQueries :
                    <<s, q>> # <<api_call'.s, api_call'.q>> =>
                        get_research(research_store', s, q) = get_research(research_store, s, q)
       /\ api_call'.name = "update_task_result" =>
              /\ research_store' = research_store
              /\ \A s \in MemSessions, q \in MemQueries, t \in MemTasks :
                    <<s, q, t>> # <<api_call'.s, api_call'.q, api_call'.task>> =>
                        get_task_result(task_store', s, q, t) = get_task_result(task_store, s, q, t)
       /\ api_call'.name = "clear_session" =>
              \A s \in MemSessions \ {api_call'.s} :
                  /\ (s \in DOMAIN research_store') = (s \in DOMAIN research_store)
                  /\ (s \in DOMAIN task_store') = (s \in DOMAIN task_store)
                  /\ DictGet(research_store', s, EmptyDict) = DictGet(research_store, s, EmptyDict)
                  /\ DictGet(task_store', s, EmptyDict) = DictGet(task_store, s, EmptyDict)]_vars

\* clear_session("s1") was called while session "s2" held research and a
\* task result, and "s2" still holds them.
C12_Witness ==
    /\ api_call.name = "clear_session"
    /\ api_call.s = "s1"
    /\ \E q \in MemQueries : get_research(research_store, "s2", q) # None
    /\ \E q \in MemQueries, t \in MemTasks : get_task_result(task_store, "s2", q, t) # None

\* A string is a valid serialized store when it is a JSON object whose
\* research_store and task_store members are both objects.
ValidBlob(blob) ==
    /\ blob.kind = "object"
    /\ \A name \in {"research_store", "task_store"} :
          \E i \in 1..Len(blob.val) :
              blob.val[i].key = name /\ blob.val[i].value.kind = "object"

\* C13 (as claimed): a deserialize of a string that is no valid serialized
\* store leaves both mappings as they were, raises nothing and reports the
\* error.
C13_FailedDeserializeKeepsStore ==
    [][(api_call'.name = "deserialize" /\ ~ValidBlob(api_call'.arg[1])) =>
           /\ research_store' = research_store
           /\ task_store' = task_store
           /\ api_call'.exc = ""
           /\ api_call'.printed]_vars

\* The stores differ from a fixed non-empty pair of stores the string is
\* loaded into
OtherResearchStore ==
    store_research(EmptyDict, "s2", "q2", ResearchRecord("q2", FallbackPlan("q2"), <<>>,
                                                         <<"stale">>, timing_info(75)))

OtherTaskStore == update_task_result(EmptyDict, "s2", "q2", "t2", TaskResultData)

-----------------------------------------------------------------------------
(***************************************************************************)
(* Properties of the coordinator and the planner (checked under Spec)      *)
(***************************************************************************)

\* The positions of the events of run r equal to e
PositionsOf(r, e) == {i \in 1..Len(events[r]) : events[r][i] = e}

\* C15: every entry of the per-task store holds both a retrieval result and
\* an analysis and was written by a run of that (session, query) for that
\* task; and a run writes the entry of task n only after its Retriever call
\* and then its Analyzer call for task n have returned.
C15_NoPartialTaskResult ==
    /\ \A s \in DOMAIN task_store : \A q \in DOMAIN task_store[s] :
          \A t \in DOMAIN task_store[s][q] :
              /\ DOMAIN task_store[s][q][t] = {"retrieval_results", "analysis"}
              /\ \E r \in Runs :
                    /\ session_id[r] = s /\ query[r] = q /\ research_plan[r] # None
                    /\ \E n \in 1..Len(results[r]) :
                          /\ TasksOf(PlanOf(r))[n] = t
                          /\ PositionsOf(r, Memory("update_task_result", n)) # {}
    /\ \A r \in Runs :
          \A k \in 1..Len(events[r]) :
              (events[r][k][1] = "memory" /\ events[r][k][2] = "update_task_result") =>
                  \E j \in 1..(k - 1) :
                      /\ events[r][j] = Return("analyzer", events[r][k][3])
                      /\ \E i \in 1..(j - 1) :
                            events[r][i] = Return("retriever", events[r][k][3])

\* A run has written the entry of a task whose retrieval and analysis both
\* fell back.
C15_Witness ==
    \E r \in Runs :
        /\ PositionsOf(r, Memory("update_task_result", 1)) # {}
        /\ get_task_result(task_store, session_id[r], query[r], "t1")
              = Some(TaskEntry(FallbackRetrieval("t1", Garbage), FallbackAnalysis("t1")))

\* Positions of the plan chunks and task blocks of run r
PlanOrTaskPositions(r) ==
    {i \in 1..Len(events[r]) :
        \/ events[r][i] = PlanChunk
        \/ events[r][i][1] = "block" /\ events[r][i][2] \in {"TASK", "TASK_RESULT"}}

\* C16: a run that starts while memory holds a record for its (session,
\* query) has got that record for the planner and has emitted MEMORY_FOUND
\* once, before every plan chunk and task block; it makes every call of the
\* pipeline all the same and at Done the record in memory is the one it
\* returns; a run that starts while no record is held never emits
\* MEMORY_FOUND.
C16_MemoryFoundThenFullRun ==
    [][\A r \in Runs :
          /\ (pc[r] = "idle" /\ pc'[r] = "planning") =>
                existing_research'[r] =
                    get_research(research_store, session_id'[r], query'[r])
          /\ pc'[r] # "idle" =>
                LET found == PositionsOf(r, Block("MEMORY_FOUND", 0))'
                IN  IF existing_research'[r] = None THEN found = {}
                    ELSE /\ Cardinality(found) = 1
                         /\ \A i \in found : \A j \in PlanOrTaskPositions(r)' : i < j
          /\ (pc[r] = "reporting" /\ pc'[r] = "done" /\ existing_research[r] # None) =>
                /\ CallsOf(r)' = RunTrace(NTasks(r))
                /\ get_research(research_store', session_id[r], query[r]) = returned'[r]]_vars

\* A run that found a record in memory is done and memory now holds the
\* record it returns, which is another one.
C16_Witness ==
    \E r \in Runs :
        /\ pc[r] = "done"
        /\ existing_research[r] # None
        /\ PositionsOf(r, Block("MEMORY_FOUND", 0)) # {}
        /\ returned[r] # existing_research[r]
        /\ get_research(research_store, session_id[r], query[r]) = returned[r]

\* A task of the prior record's plan that has a result in the record's results
HasCompletedResult(rec, task) ==
    \E i \in 1..Len(rec.results) : rec.results[i].task = task

\* C17 (as claimed): when a run found a prior record, every task of the prior
\* plan that has a result in the prior record's results is listed in the
\* planner's user_message as already completed.
C17_CompletedTasksListed ==
    \A r \in Runs :
        existing_research[r] # None =>
            LET rec == existing_research[r][1]
            IN  \A n \in 1..Len(TasksOf(rec.plan)) :
                    HasCompletedResult(rec, TasksOf(rec.plan)[n]) =>
                        \E k \in 1..Len(user_message[r]) :
                            user_message[r][k] = TasksOf(rec.plan)[n]

\* The tasks of a plan lacking "tasks", which the planner fills with ""
NoTasks(plan) == plan.tasks = EmptyStr

\* C19: for every object the model writes as a plan, create_research_plan
\* raises nothing and returns the object with each absent required field set
\* to the empty string; and a run whose plan lacked "tasks" goes on to the
\* report with no task block and an empty results list, and when done it
\* has stored and returned a record with empty results.
C19_AbsentFieldsFilled ==
    /\ \A q \in Queries, o \in PlanObjects :
          LET made == create_research_plan(q, [text |-> EmbeddedText, obj |-> o])
          IN  /\ made.exc = ""
              /\ DOMAIN made.plan = (DOMAIN o) \cup {"query_analysis", "context", "tasks", "approach"}
              /\ \A f \in DOMAIN o : made.plan[f] = o[f]
              /\ \A f \in (DOMAIN made.plan) \ (DOMAIN o) :
                    IF f = "tasks" THEN made.plan[f] = EmptyStr ELSE made.plan[f] = ""
    /\ \A r \in Runs :
          (research_plan[r] # None /\ NoTasks(PlanOf(r))) =>
              /\ pc[r] \in {"reporting", "done", "completed", "aborted"}
              /\ results[r] = <<>>
              /\ SelectSeq(events[r], IsTaskOrReportEvent) \in {<<>>, <<Open("FINAL_REPORT")>>}
              /\ pc[r] \in {"done", "completed"} =>
                    /\ returned[r] # None
                    /\ returned[r][1].results = <<>>
                    /\ returned[r][1].plan = PlanOf(r)
                    /\ PositionsOf(r, Memory("store_research", 0)) # {}
                    /\ get_research(research_store, session_id[r], query[r]) # None

\* A run whose plan lacked "tasks" (and "context" and "approach") completed
\* and memory holds the record it returned.
C19_Witness ==
    \E r \in Runs :
        /\ pc[r] = "completed"
        /\ NoTasks(PlanOf(r))
        /\ PlanOf(r).context = ""
        /\ returned[r][1].results = <<>>
        /\ get_research(research_store, session_id[r], query[r]) = returned[r]

-----------------------------------------------------------------------------
(***************************************************************************)
(* Properties of single stage calls (checked under SpecStage)              *)
(***************************************************************************)

\* The last call was one of `stage` and the model's response was a text in
\* which no JSON can be decoded
UnparseableCall(stage) ==
    /\ stage_call.stage = stage
    /\ Parse(stage_call.response).kind = "JSONDecodeError"

\* C18: a planner call whose model output is not parseable JSON returns a
\* plan with exactly the fields query_analysis, context, tasks and approach,
\* whose tasks are 4 non-empty texts that depend on the query.
C18_FallbackPlanShape ==
    UnparseableCall("planner") =>
        LET made == stage_result[1]
        IN  /\ made.exc = ""
            /\ DOMAIN made.plan = {"query_analysis", "context", "tasks", "approach"}
            /\ made.plan.tasks.py = "list"
            /\ Len(TasksOf(made.plan)) = 4
            /\ \A i \in 1..Len(TasksOf(made.plan)) :
                  /\ TasksOf(made.plan)[i] # ""
                  /\ \A q \in StageQueries \ {stage_call.subject} :
                        TasksOf(create_research_plan(q, stage_call.response).plan)[i]
                            # TasksOf(made.plan)[i]

\* The planner was called on a response with braces around text that is no
\* JSON, and returned.
C18_Witness ==
    /\ UnparseableCall("planner")
    /\ stage_call.response.text = BrokenText
    /\ stage_result # None
    /\ Len(TasksOf(stage_result[1].plan)) = 4

\* The last call was a retriever call whose model output decoded to an
\* object with no "sources" member or an empty one
NoSourcesCall ==
    /\ stage_call.stage = "retriever"
    /\ Parse(stage_call.response).kind = "object"
    /\ \/ "sources" \notin DOMAIN Parse(stage_call.response).val
       \/ Parse(stage_call.response).val.sources = <<>>

\* C20: a retriever call whose model output is a JSON object with an empty
\* or missing sources list does not call the ranker and returns the object
\* as it was decoded, sources absent or empty as in the model's JSON.
C20_NoSourcesNoRanking ==
    NoSourcesCall =>
        /\ stage_result[1].exc = ""
        /\ ~stage_result[1].ranked
        /\ stage_result[1].val = Parse(stage_call.response).val
        /\ ("sources" \in DOMAIN stage_result[1].val)
              = ("sources" \in DOMAIN Parse(stage_call.response).val)

\* The retriever was called with a ranking credential on an object whose
\* sources list is empty, and on one without sources.
C20_Witness ==
    /\ NoSourcesCall
    /\ stage_call.api_key
    /\ stage_call.service.ok
    /\ "sources" \in DOMAIN Parse(stage_call.response).val
    /\ stage_result[1].val.sources = <<>>

\* The last call was rerank_results(q, documents, k)
RankerCalled == stage_call.stage = "ranker"

\* The first k documents in input order, each with score 1.0
FirstUnscored(documents, k) ==
    [i \in 1..(IF k < Len(documents) THEN k ELSE Len(documents)) |->
        [document |-> documents[i], score |-> 1]]

\* C21: for every document list and top_k, rerank_results returns
\* min(top_k, number of documents) entries; without a ranking credential they
\* are the first top_k documents in input order, each with score 1.0.
C21_RankerLengthAndUnscoredOrder ==
    RankerCalled =>
        LET documents == stage_call.documents
            k         == stage_call.top_k
            reranked  == stage_result[1]
        IN  /\ Len(reranked) = (IF k < Len(documents) THEN k ELSE Len(documents))
            /\ ~stage_call.api_key => reranked = FirstUnscored(documents, k)

\* The ranking call failed: a network error, an error status or a malformed
\* body (service.ok is FALSE), or a body that holds fewer embeddings than
\* the query and the documents need
RankingCallFailed ==
    /\ RankerCalled
    /\ stage_call.api_key
    /\ stage_call.documents # <<>>
    /\ \/ ~stage_call.service.ok
       \/ Len(stage_call.service.embeddings) < Len(stage_call.documents) + 1

\* C22: any failure of the ranking call (network error, error status,
\* malformed or short body) is caught inside rerank_results, which then
\* returns the first top_k documents in input order, each with score 1.0.
C22_RankingFailureFallsBack ==
    RankingCallFailed =>
        stage_result[1] = FirstUnscored(stage_call.documents, stage_call.top_k)

\* C23: when the retrieval call's model output cannot be parsed, the
\* retriever returns a result with exactly one source, whose content is built
\* from the task and at most the first 500 characters of the model's text,
\* and exactly one key point, and it does not call the ranker.
C23_RetrievalFallbackShape ==
    UnparseableCall("retriever") =>
        LET got  == stage_result[1]
            text == stage_call.response.text
        IN  /\ got.exc = ""
            /\ ~got.ranked
            /\ Len(got.val.sources) = 1
            /\ Len(got.val.key_points) = 1
            /\ LET content == got.val.sources[1].content
               IN  /\ content[1] = "General information about " \o stage_call.subject \o ". "
                   /\ Len(content) - 1 <= 500
                   /\ Len(content) - 1 <= Len(text)
                   /\ Len(content) - 1 = 500 \/ Len(content) - 1 = Len(text)
                   /\ \A i \in 2..Len(content) : content[i] = text[i - 1]

\* The retriever was called with a ranking credential on prose of more than
\* 500 characters, and the one source holds 500 of them.
C23_Witness ==
    /\ UnparseableCall("retriever")
    /\ stage_call.api_key
    /\ stage_call.service.ok
    /\ Len(stage_call.response.text) > 500
    /\ Len(stage_result[1].val.sources[1].content) = 501

\* C24 as stated: when the analysis call's model output cannot be parsed, the
\* analyzer returns a placeholder whose key insight's confidence and whose
\* quality_assessment.overall_quality are "low" and whose summary mentions
\* the task.
C24_PlaceholderIsLow ==
    UnparseableCall("analyzer") =>
        LET analysis == stage_result[1].val
        IN  /\ analysis.key_insights[1].confidence = "low"
            /\ analysis.quality_assessment.overall_quality = "low"
            /\ analysis.summary
                  = "Analysis of information related to " \o stage_call.subject \o "."

\* C24 as the code has it: the placeholder is the same for every unparseable
\* output, it has one key insight, its confidence and overall_quality are
\* "medium", and its summary mentions the task.
C24_PlaceholderIsMedium ==
    UnparseableCall("analyzer") =>
        LET analysis == stage_result[1].val
        IN  /\ stage_result[1].kind = "object"
            /\ Len(analysis.key_insights) = 1
            /\ analysis.key_insights[1].confidence = "medium"
            /\ analysis.quality_assessment.overall_quality = "medium"
            /\ analysis.summary
                  = "Analysis of information related to " \o stage_call.subject \o "."
            /\ \A t \in StageTexts :
                  Parse([text |-> t, obj |-> EmptyDict]).kind = "JSONDecodeError"
                  => analyze_content(stage_call.subject,
                                     [text |-> t, obj |-> stage_call.response.obj])
                        = stage_result[1]

\* The analyzer was called for task t2 on braces around text that is no
\* JSON, and returned the placeholder.
C24_Witness ==
    /\ UnparseableCall("analyzer")
    /\ stage_call.subject = "t2"
    /\ stage_call.response.text = BrokenText
    /\ stage_result[1].val.quality_assessment.overall_quality = "medium"

\* The text has a '{' that a '}' follows
HasBracePair(text) ==
    \E i, j \in 1..Len(text) : i < j /\ text[i] = "{" /\ text[j] = "}"

\* text from its first '{' to its last '}', both included
FirstOpenToLastClose(text) ==
    LET opens  == {i \in 1..Len(text) : text[i] = "{"}
        closes == {j \in 1..Len(text) : text[j] = "}"}
        first  == CHOOSE i \in opens : \A n \in opens : i <= n
        last   == CHOOSE j \in closes : \A n \in closes : n <= j
    IN  [n \in 1..(last - first + 1) |-> text[first + n - 1]]

\* C29: the _extract_json of the planner, of the retriever and of the
\* analyzer agree on every text; for a text that holds a '{' followed later
\* by a '}' they return the substring from the first '{' to the last '}'
\* inclusive, and for any other text they return the text unchanged.
C29_ExtractJson ==
    stage_call.stage = "_extract_json" =>
        LET text == stage_call.response.text
            got  == stage_result[1]
        IN  /\ got.retriever = got.planner
            /\ got.analyzer = got.planner
            /\ got.planner = IF HasBracePair(text) THEN FirstOpenToLastClose(text)
                             ELSE text

\* _extract_json was applied to prose, an object that holds a '}' of its own,
\* and prose again; and it cut the prose off.
C29_Witness ==
    /\ stage_call.stage = "_extract_json"
    /\ stage_call.response.text = <<"p", "{", "}", "}">>
    /\ stage_result[1].planner = <<"{", "}", "}">>
    /\ stage_result[1].analyzer = <<"{", "}", "}">>

-----------------------------------------------------------------------------
(***************************************************************************)
(* Properties of the progress protocol, of degraded runs and of the        *)
(* results list (checked under SpecKeys; they hold under Spec as well),    *)
(* and of suspension (checked under Spec)                                  *)
(***************************************************************************)

\* The positions of the chunks run r emitted on stream `name`
ChunkPositions(r, name) ==
    {i \in 1..Len(events[r]) : events[r][i][1] = "chunk" /\ events[r][i][2] = name}

\* Every position of `before` is below every position of `after`
AllBefore(before, after) == \A j \in after : \A i \in before : i < j

\* C25: in a completed run the GREETING block is the first event; the plan
\* stream is opened before any plan chunk and closed before the FINAL_REPORT
\* stream is opened; the GENERATING_REPORT block comes after every task
\* result block and before the FINAL_REPORT stream is opened; the
\* FINAL_REPORT stream is closed before the completion signal, which is the
\* last event and is emitted once; and no run emits a chunk on a stream it
\* has closed.
C25_ProgressProtocol ==
    \A r \in Runs :
        LET open_plan    == PositionsOf(r, Open("RESEARCH_PLAN"))
            close_plan   == PositionsOf(r, Close("RESEARCH_PLAN"))
            open_report  == PositionsOf(r, Open("FINAL_REPORT"))
            close_report == PositionsOf(r, Close("FINAL_REPORT"))
            generating   == PositionsOf(r, Block("GENERATING_REPORT", 0))
            task_results == {i \in 1..Len(events[r]) :
                                events[r][i][1] = "block" /\ events[r][i][2] = "TASK_RESULT"}
            completion   == PositionsOf(r, Complete)
        IN  /\ AllBefore(ChunkPositions(r, "RESEARCH_PLAN"), close_plan)
            /\ AllBefore(ChunkPositions(r, "FINAL_REPORT"), close_report)
            /\ pc[r] = "completed" =>
                  /\ events[r][1] = Block("GREETING", 0)
                  /\ Cardinality(open_plan) = 1 /\ Cardinality(close_plan) = 1
                  /\ Cardinality(open_report) = 1 /\ Cardinality(close_report) = 1
                  /\ Cardinality(generating) = 1
                  /\ AllBefore(open_plan, ChunkPositions(r, "RESEARCH_PLAN"))
                  /\ ChunkPositions(r, "RESEARCH_PLAN") # {}
                  /\ AllBefore(close_plan, open_report)
                  /\ AllBefore(task_results, generating)
                  /\ AllBefore(generating, open_report)
                  /\ AllBefore(open_report, ChunkPositions(r, "FINAL_REPORT"))
                  /\ AllBefore(close_report, completion)
                  /\ completion = {Len(events[r])}

\* A run of 4 tasks completed after it streamed its report.
C25_Witness ==
    \E r \in Runs :
        /\ pc[r] = "completed"
        /\ NTasks(r) = 4
        /\ streamed[r] # <<>>
        /\ ChunkPositions(r, "FINAL_REPORT") # {}

\* Run r is suspended in a network call: generate_response's client.post
\* (models.py 109-114) or rerank_results' requests.post (retriever.py 58)
InNetworkCall(r) ==
    pc[r] \in {"planning", "retrieving", "ranking", "analyzing", "reporting"}

\* C26 (as claimed): while one run is suspended in a network call of the
\* Generative Client or of the Ranker, any other run can take the step it is
\* ready for: a run that was not started can start, and a run whose
\* conduct_research returned can stream its report.
C26_CallBlocksOnlyItsRun ==
    \A r \in Runs : \A other \in Runs \ {r} :
        InNetworkCall(r) =>
            /\ pc[other] = "idle" =>
                  ENABLED (\E s \in Sessions, q \in Queries : Assist(other, s, q))
            /\ pc[other] = "done" => ENABLED AssistFinish(other)

\* Every TaskResult of the run so far holds the fallback retrieval and the
\* placeholder analysis of its task
FellBackSoFar(r) ==
    \A i \in 1..Len(results[r]) :
        /\ results[r][i].retrieval_results =
               FallbackRetrieval(TasksOf(PlanOf(r))[i], Garbage)
        /\ results[r][i].analysis = FallbackAnalysis(TasksOf(PlanOf(r))[i])

\* Every model output the run has got so far was unparseable: the plan is the
\* fallback plan, and so is each retrieval and each analysis there is, and no
\* decoded value that is no object has ended the run
AllUnparseable(r) ==
    /\ research_plan[r] # None
    /\ error[r] \notin DecodeErrors
    /\ PlanOf(r) = FallbackPlan(query[r])
    /\ FellBackSoFar(r)
    /\ retrieval_results[r] # None =>
          retrieval_results[r][1] =
              FallbackRetrieval(TasksOf(PlanOf(r))[Len(results[r]) + 1], Garbage)

\* The runs that returned a record for the key of run r
ReturnedFor(r) ==
    {o \in Runs : /\ session_id[o] = session_id[r] /\ query[o] = query[r]
                  /\ returned[o] # None}

\* C28: no stage raises on an unparseable model output; a run whose every
\* model output is unparseable has the 4 tasks of the fallback plan and is
\* ended by a failing generate_response call only; when conduct_research has
\* returned there is one TaskResult per task, each with exactly one fallback
\* source and the placeholder analysis, generate_report was called once,
\* with these 4 TaskResults, and the record returned holds them and is the
\* one get_research gives for the run's key (as long as no other run has
\* stored a record under that key).
C28_DegradedRun ==
    \A r \in Runs :
        /\ create_research_plan(query[r], Garbage).exc = ""
        /\ AllUnparseable(r) =>
            /\ \A i \in 1..4 : \A api_key \in BOOLEAN, service \in RankerServices :
                  /\ retrieve_information(TasksOf(PlanOf(r))[i], Garbage,
                                          api_key, service).exc = ""
                  /\ analyze_content(TasksOf(PlanOf(r))[i], Garbage).kind = "object"
            /\ pc[r] = "aborted" => error[r] \in GenerateErrors
            /\ pc[r] # "ranking"
            /\ NTasks(r) = 4
            /\ Len(results[r]) <= 4
            /\ pc[r] \in {"done", "completed"} =>
                  /\ Len(results[r]) = 4
                  /\ \A i \in 1..4 :
                        /\ results[r][i].task = TasksOf(FallbackPlan(query[r]))[i]
                        /\ Len(results[r][i].retrieval_results.sources) = 1
                        /\ Len(results[r][i].analysis.key_insights) = 1
                  /\ Cardinality(PositionsOf(r, Call("report_generator", 0))) = 1
                  /\ report_call[r] # None
                  /\ report_call[r][1].task_results = results[r]
                  /\ returned[r] # None
                  /\ returned[r][1].results = results[r]
                  /\ returned[r][1].plan = FallbackPlan(query[r])
                  /\ get_research(research_store, session_id[r], query[r])
                        \in {returned[o] : o \in ReturnedFor(r)}
                  /\ ReturnedFor(r) = {r} =>
                        get_research(research_store, session_id[r], query[r]) = returned[r]

\* A run got nothing but unparseable outputs and completed, and memory gives
\* the record it returned.
C28_Witness ==
    \E r \in Runs :
        /\ pc[r] = "completed"
        /\ AllUnparseable(r)
        /\ Len(report_call[r][1].task_results) = 4
        /\ ReturnedFor(r) = {r}
        /\ get_research(research_store, session_id[r], query[r]) = returned[r]

\* C30: at every point of a run the results list follows the plan:
\* results[i].task is plan.tasks[i] for every i up to its length; when
\* conduct_research has returned its length is the number of plan tasks; and
\* generate_report is called when the list is complete, with exactly this
\* list in this order.
C30_ResultsFollowPlan ==
    \A r \in Runs :
        /\ research_plan[r] = None => results[r] = <<>> /\ report_call[r] = None
        /\ research_plan[r] # None =>
              /\ Len(results[r]) <= NTasks(r)
              /\ \A i \in 1..Len(results[r]) :
                    results[r][i].task = TasksOf(PlanOf(r))[i]
              /\ pc[r] \in {"done", "completed"} => Len(results[r]) = NTasks(r)
              /\ (PositionsOf(r, Call("report_generator", 0)) # {}) = (report_call[r] # None)
              /\ report_call[r] # None =>
                    /\ report_call[r][1].task_results = results[r]
                    /\ report_call[r][1].research_plan = PlanOf(r)
                    /\ Len(report_call[r][1].task_results) = NTasks(r)

\* generate_report was called with the two results of a plan that names the
\* same task twice.
C30_Witness ==
    \E r \in Runs :
        /\ pc[r] = "reporting"
        /\ report_call[r] # None
        /\ TasksOf(PlanOf(r)) = <<"t1", "t1">>
        /\ Len(report_call[r][1].task_results) = 2

-----------------------------------------------------------------------------
(***************************************************************************)
(* Properties of runs with different keys (checked under SpecKeys)         *)
(***************************************************************************)

\* The number of update_task_result calls run r has made
Updates(r) ==
    Cardinality({i \in 1..Len(events[r]) :
                    events[r][i][1] = "memory" /\ events[r][i][2] = "update_task_result"})

\* The per-task store after the first n update_task_result calls of run r,
\* made on an empty memory by that run alone
RECURSIVE AloneTaskStore(_, _)
AloneTaskStore(r, n) ==
    IF n = 0 THEN EmptyDict
    ELSE update_task_result(AloneTaskStore(r, n - 1), session_id[r], query[r],
                            results[r][n].task,
                            TaskEntry(results[r][n].retrieval_results,
                                      results[r][n].analysis))

\* C27: runs with different (session, query) keys are independent under
\* every interleaving: what memory holds under a run's key, the record and
\* the per-task results, is what that run alone stores on an empty memory
\* with the same model outputs; a run finds no record under its key, and
\* memory holds entries under no key but those of the runs that wrote.
C27_DistinctKeysIndependent ==
    /\ \A r \in Runs :
          pc[r] # "idle" =>
              /\ existing_research[r] = None
              /\ get_research(research_store, session_id[r], query[r]) = returned[r]
              /\ returned[r] # None =>
                    /\ returned[r][1].query = query[r]
                    /\ returned[r][1].plan = PlanOf(r)
                    /\ returned[r][1].results = results[r]
              /\ get_all_task_results(task_store, session_id[r], query[r])
                    = get_all_task_results(AloneTaskStore(r, Updates(r)),
                                           session_id[r], query[r])
    /\ \A s \in DOMAIN research_store : \A q \in DOMAIN research_store[s] :
          \E r \in Runs : session_id[r] = s /\ query[r] = q /\ returned[r] # None
    /\ \A s \in DOMAIN task_store : \A q \in DOMAIN task_store[s] :
          \E r \in Runs : session_id[r] = s /\ query[r] = q /\ Updates(r) > 0

\* Two runs of one session with different queries: one completed, and the
\* other one, which started before the first one stored its record, has
\* written the result of its first task since.
C27_Witness ==
    /\ pc["r1"] = "completed"
    /\ pc["r2"] = "analyzing"
    /\ session_id["r2"] = session_id["r1"]
    /\ query["r2"] # query["r1"]
    /\ Updates("r1") = 4
    /\ Updates("r2") = 1
    /\ Len(results["r2"]) = 1
    /\ DOMAIN task_store[session_id["r1"]] = {query["r1"], query["r2"]}

-----------------------------------------------------------------------------
(***************************************************************************)
(* Properties of ranking (checked under SpecStage)                         *)
(***************************************************************************)

\* The last call was a retriever call whose model output decoded to an
\* object with sources, which the retriever gave to the ranker
RankedCall ==
    /\ stage_call.stage = "retriever"
    /\ Parse(stage_call.response).kind = "object"
    /\ "sources" \in DOMAIN Parse(stage_call.response).val
    /\ Parse(stage_call.response).val.sources # <<>>

\* C31 (as claimed): after ranking, the retriever's sources list has exactly
\* one entry per document the ranker returned, in the ranker's order; each
\* entry is the source that document came from, with the score the ranker
\* returned for that document as its relevance_score; whatever the source
\* list, a source without content or two sources of the same content
\* included.
C31_SourcesFollowRanking ==
    RankedCall =>
        LET sources   == Parse(stage_call.response).val.sources
            documents == [i \in 1..Len(sources) |->
                             IF "content" \in DOMAIN sources[i] THEN sources[i].content
                             ELSE <<>>]
            reranked  == rerank_results(stage_call.api_key, documents, top_k,
                                        stage_call.service)
            got       == stage_result[1].val.sources
        IN  /\ Len(got) = Len(reranked)
            /\ Len(got) <= top_k
            /\ \A n \in 1..Len(got) :
                  /\ "relevance_score" \in DOMAIN got[n]
                  /\ got[n].relevance_score = reranked[n].score
                  /\ \E i \in 1..Len(sources) :
                        /\ documents[i] = reranked[n].document
                        /\ got[n] = [f \in (DOMAIN sources[i]) \cup {"relevance_score"} |->
                                        IF f = "relevance_score" THEN reranked[n].score
                                        ELSE sources[i][f]]
            /\ \A m, n \in 1..Len(got) :
                  m # n => [f \in (DOMAIN got[m]) \ {"relevance_score"} |-> got[m][f]]
                             # [f \in (DOMAIN got[n]) \ {"relevance_score"} |-> got[n][f]]

\* The last call was rerank_results with a credential and a service that
\* answered one embedding per text
WellRankedCall ==
    /\ RankerCalled
    /\ stage_call.api_key
    /\ stage_call.documents # <<>>
    /\ stage_call.service.ok
    /\ Len(stage_call.service.embeddings) = Len(stage_call.documents) + 1

\* The dot product of the query's embedding and that of document i
ScoreOf(i) ==
    LET q == stage_call.service.embeddings[1]
        d == stage_call.service.embeddings[i + 1]
    IN  q[1] * d[1] + q[2] * d[2]

\* The place of document i when the documents are put in non-increasing
\* order of score, documents of equal score in input order
PlaceOf(i) ==
    1 + Cardinality({j \in 1..Len(stage_call.documents) :
                        \/ ScoreOf(j) > ScoreOf(i)
                        \/ ScoreOf(j) = ScoreOf(i) /\ j < i})

\* C32: with a credential and a service that answers one embedding per text
\* in input order, rerank_results returns the top_k documents of highest
\* dot product with the query's embedding, in non-increasing order of
\* score, each with its own score, documents of equal score in input order.
C32_RanksByDotProduct ==
    WellRankedCall =>
        LET documents == stage_call.documents
            k         == stage_call.top_k
            reranked  == stage_result[1]
        IN  /\ Len(reranked) = (IF k < Len(documents) THEN k ELSE Len(documents))
            /\ \A i \in 1..Len(documents) :
                  PlaceOf(i) <= k =>
                      reranked[PlaceOf(i)] = [document |-> documents[i], score |-> ScoreOf(i)]
            /\ \A n \in 1..(Len(reranked) - 1) : reranked[n].score >= reranked[n + 1].score

\* rerank_results was called for the top 2 of three documents of which the
\* second and the third score the same and higher than the first.
C32_Witness ==
    /\ WellRankedCall
    /\ Len(stage_call.documents) = 3
    /\ stage_call.top_k = 2
    /\ ScoreOf(1) < ScoreOf(2)
    /\ ScoreOf(2) = ScoreOf(3)
    /\ stage_result[1][1].document = stage_call.documents[2]
    /\ stage_result[1][2].document = stage_call.documents[3]

-----------------------------------------------------------------------------
(***************************************************************************)
(* Properties of the report's chunks (checked under SpecStage)             *)
(***************************************************************************)

\* The chunks one after the other
RECURSIVE Concatenated(_)
Concatenated(chunks) ==
    IF chunks = <<>> THEN <<>> ELSE Head(chunks) \o Concatenated(Tail(chunks))

\* C33: for every report the chunks emitted on the FINAL_REPORT stream,
\* concatenated in the order of emission, are the report; every chunk has at
\* most 100 characters and every chunk but the last exactly 100; an empty
\* report gives no chunk, and the stream is opened and closed all the same.
C33_ChunksRebuildReport ==
    stage_call.stage = "_chunk_text" =>
        LET report == stage_call.response.text
            chunks == stage_result[1].chunks
            emitted == stage_result[1].events
        IN  /\ Concatenated(chunks) = report
            /\ \A k \in 1..Len(chunks) : Len(chunks[k]) <= 100 /\ Len(chunks[k]) >= 1
            /\ \A k \in 1..(Len(chunks) - 1) : Len(chunks[k]) = 100
            /\ report = <<>> => chunks = <<>>
            /\ emitted = <<Close("RESEARCH_PLAN"), Open("FINAL_REPORT")>>
                         \o [k \in 1..Len(chunks) |-> Chunk("FINAL_REPORT", k)]
                         \o <<Close("FINAL_REPORT"), Complete>>

\* A report of 250 characters was streamed in three chunks, the last of 50;
\* and an empty report with none.
C33_Witness ==
    /\ stage_call.stage = "_chunk_text"
    /\ Len(stage_call.response.text) = 250
    /\ Len(stage_result[1].chunks) = 3
    /\ Len(stage_result[1].chunks[3]) = 50
    /\ stage_result[1].chunks[2][1] # stage_result[1].chunks[1][1]

-----------------------------------------------------------------------------
(***************************************************************************)
(* Properties of aborted and completed runs (checked under SpecKeys)       *)
(***************************************************************************)

\* Run r was ended by an exception while it worked on task k
AbortedAtTask(r, k) ==
    /\ pc[r] = "aborted"
    /\ events[r] # <<>>
    /\ Last(events[r])[1] = "raise"
    /\ Last(events[r])[3] = k

GenerateCalls(r) == SelectSeq(events[r], LAMBDA e : e[1] = "call")

\* The generate_response calls of a run of N tasks that completes
ExpectedCalls(N) ==
    <<Call("planner", 0)>>
    \o [j \in 1..(2 * N) |-> IF j % 2 = 1 THEN Call("retriever", (j + 1) \div 2)
                             ELSE Call("analyzer", j \div 2)]
    \o <<Call("report_generator", 0)>>

\* Every generate_response call of run r made so far is the next one of
\* ExpectedCalls, and a run that completed has made them all
CallsInOrder(r) ==
    LET calls == GenerateCalls(r)
    IN  /\ research_plan[r] = None => calls \in {<<>>, <<Call("planner", 0)>>}
        /\ research_plan[r] # None =>
              /\ Len(calls) <= 2 * NTasks(r) + 2
              /\ calls = SubSeq(ExpectedCalls(NTasks(r)), 1, Len(calls))
              /\ pc[r] \in {"done", "completed"} => Len(calls) = 2 * NTasks(r) + 2

\* C35: a completed run of N plan tasks makes exactly 2N+2 generate calls:
\* one Planner call, then for each task in plan order one Retriever call
\* followed by one Analyzer call, then one Report Synthesizer call; and the
\* Analyzer call of task i works on the retrieval result the Retriever
\* returned for task i in this run: it is there when the Analyzer call
\* starts, no step of another run changes it during the call, and it is the
\* one the task's result holds when the call has returned.
C35_CallSequence ==
    [][\A r \in Runs :
          /\ CallsInOrder(r)'
          /\ (pc[r] \in {"retrieving", "ranking"} /\ pc'[r] = "analyzing") =>
                /\ retrieval_results'[r] # None
                /\ Last(events'[r]) = Call("analyzer", Len(results[r]) + 1)
                /\ Len(results'[r]) = Len(results[r])
          /\ (pc[r] = "analyzing" /\ pc'[r] = "analyzing") =>
                retrieval_results'[r] = retrieval_results[r]
          /\ (pc[r] = "analyzing" /\ pc'[r] # "analyzing" /\ pc'[r] # "aborted") =>
                /\ Len(results'[r]) = Len(results[r]) + 1
                /\ Last(results'[r]).task = TasksOf(PlanOf(r))[Len(results'[r])]
                /\ Last(results'[r]).retrieval_results = retrieval_results[r][1]
                /\ SubSeq(results'[r], 1, Len(results[r])) = results[r]]_vars

\* A run of the 4 tasks of the fallback plan completed with 10 generate
\* calls, while the other run was in a call of its own.
C35_Witness ==
    \E r \in Runs :
        /\ pc[r] = "completed"
        /\ NTasks(r) = 4
        /\ Len(GenerateCalls(r)) = 10
        /\ GenerateCalls(r)[9] = Call("analyzer", 4)
        /\ \E o \in Runs \ {r} : pc[o] = "analyzing"

\* C40: when a run aborts inside conduct_research the protocol towards the
\* host is left unfinished: the plan stream assist opened is not closed, no
\* FINAL_REPORT stream is opened and no completion signal is emitted, and
\* the run emits nothing after the exception; conversely a completion signal
\* is emitted only after the run stored a ResearchRecord, which memory holds.
C40_AbortLeavesProtocolOpen ==
    \A r \in Runs :
        /\ pc[r] = "aborted" =>
              /\ PositionsOf(r, Open("RESEARCH_PLAN")) # {}
              /\ \A i \in 1..Len(events[r]) :
                    /\ events[r][i] \notin {Close("RESEARCH_PLAN"), Open("FINAL_REPORT"),
                                            Close("FINAL_REPORT"), Complete}
                    /\ events[r][i][1] = "chunk" => events[r][i][2] # "FINAL_REPORT"
                    /\ events[r][i][1] = "raise" => i = Len(events[r])
              /\ Last(events[r])[1] = "raise"
              /\ returned[r] = None
        /\ \A i \in PositionsOf(r, Complete) :
              /\ \E j \in 1..(i - 1) : events[r][j] = Memory("store_research", 0)
              /\ returned[r] # None
              /\ get_research(research_store, session_id[r], query[r]) = returned[r]
              /\ pc[r] = "completed"

\* One run aborted in the Analyzer call of its second task with its plan
\* stream open, and the other one signalled completion after it stored its
\* record.
C40_Witness ==
    \E r, o \in Runs :
        /\ AbortedAtTask(r, 2)
        /\ Last(events[r])[2] = "analyzer"
        /\ PositionsOf(r, Open("RESEARCH_PLAN")) # {}
        /\ pc[o] = "completed"
        /\ Last(events[o]) = Complete

-----------------------------------------------------------------------------
(***************************************************************************)
(* Requests after a successful response (checked under SpecGen)            *)
(***************************************************************************)

\* The i-th request of the call ended with a 429 or a connection failure
RetryableOutcome(i) ==
    \/ outcomes[i].kind = "status" /\ outcomes[i].code = 429
    \/ outcomes[i].kind = "connfail"

\* C37 (as claimed): a further request follows only a request that ended
\* with an HTTP 429 or a connection failure; once a request received a 2xx
\* response it is the last one of the call, and the call returns the text
\* generated in that response, the empty text when it carries no choice.
C37_NoRequestAfterSuccess ==
    \A i \in 1..Len(outcomes) :
        /\ requests > i => RetryableOutcome(i)
        /\ outcomes[i].kind = "ok" =>
              /\ i = Len(outcomes)
              /\ requests = i
              /\ genPc = "returned"
              /\ generated_text = (IF outcomes[i].body = "text" THEN EndpointText ELSE "")

-----------------------------------------------------------------------------
(***************************************************************************)
(* Runs of one key, one after the other and concurrent (checked under Spec)*)
(***************************************************************************)

\* Run r completed, and the other run did not start or had stored its
\* record before r started: r found that record in memory
CompletedInSequence(r) ==
    /\ pc[r] = "completed"
    /\ \A o \in Runs \ {r} :
          \/ pc[o] = "idle"
          \/ /\ pc[o] = "completed"
             /\ session_id[o] = session_id[r] /\ query[o] = query[r]
             /\ existing_research[r] = returned[o]

\* The per-task results of run r's key are those of the stored record: the
\* keys are the tasks of its plan, each with the retrieval result and the
\* analysis of a result the record holds for that task
TaskStoreMatchesRecord(r) ==
    LET record == get_research(research_store, session_id[r], query[r])[1]
        stored == get_all_task_results(task_store, session_id[r], query[r])
    IN  /\ DOMAIN stored = {TasksOf(record.plan)[n] : n \in 1..Len(TasksOf(record.plan))}
        /\ \A t \in DOMAIN stored :
              \E n \in 1..Len(record.results) :
                  /\ record.results[n].task = t
                  /\ stored[t] = TaskEntry(record.results[n].retrieval_results,
                                           record.results[n].analysis)

\* C38 (as claimed): after a run completes, the task keys of
\* get_all_task_results(session, query) are exactly the tasks of the stored
\* record's plan, each with the retrieval result and analysis the record's
\* results hold for it; also after a sequence of runs of the same key whose
\* plans differ or repeat a task text.
C38_TaskResultsMatchRecord ==
    \A r \in Runs : CompletedInSequence(r) => TaskStoreMatchesRecord(r)

\* What memory holds under the key of run r, before and after a step
StoredFor(store, r) == get_research(store, session_id[r], query[r])

\* C39: when two runs of the same (session, query) execute concurrently,
\* under every interleaving the stored record is, in full, the record
\* returned by the run that stored last: the record changes only in the step
\* in which a run stores and returns, and is then the record that run
\* returns; and every per-task entry stored for the key is a complete result
\* one of the runs wrote for that task: the per-task store changes only when
\* a run's Analyzer call returned, in the entry of that run's task alone,
\* which is then the retrieval result and the analysis of that task.
C39_LastWriterWins ==
    [][/\ research_store' # research_store =>
              \E r \in Runs :
                  /\ pc[r] = "reporting" /\ pc'[r] = "done"
                  /\ returned'[r] # None
                  /\ StoredFor(research_store', r) = returned'[r]
                  /\ \A o \in Runs \ {r} : returned'[o] = returned[o]
       /\ task_store' # task_store =>
              \E r \in Runs :
                  LET before == get_all_task_results(task_store, session_id[r], query[r])
                      after  == get_all_task_results(task_store', session_id[r], query[r])
                      result == Last(results'[r])
                  IN  /\ pc[r] = "analyzing"
                      /\ Len(results'[r]) = Len(results[r]) + 1
                      /\ DOMAIN after = DOMAIN before \cup {result.task}
                      /\ after[result.task] = [retrieval_results |-> result.retrieval_results,
                                               analysis |-> result.analysis]
                      /\ \A t \in DOMAIN before : t # result.task => after[t] = before[t]
       /\ \A r \in Runs :
              (pc[r] = "reporting" /\ pc'[r] = "done") =>
                  /\ returned'[r] # None
                  /\ StoredFor(research_store', r) = returned'[r]
       /\ \A r \in Runs :
              LET after == IF task_store' = task_store THEN EmptyDict
                           ELSE get_all_task_results(task_store', session_id'[r], query'[r])
              IN  \A t \in DOMAIN after :
                      /\ DOMAIN after[t] = {"retrieval_results", "analysis"}
                      /\ \E o \in Runs : \E n \in 1..Len(results'[o]) :
                            /\ session_id'[o] = session_id'[r] /\ query'[o] = query'[r]
                            /\ results'[o][n].task = t
                            /\ after[t].retrieval_results = results'[o][n].retrieval_results
                            /\ after[t].analysis = results'[o][n].analysis]_vars

\* Both runs of the key started before either stored a record, both
\* completed with different records, and memory holds the one of r1 in
\* full, which stored after r2.
C39_Witness ==
    /\ pc["r1"] = "completed" /\ pc["r2"] = "completed"
    /\ existing_research["r1"] = None /\ existing_research["r2"] = None
    /\ returned["r1"] # returned["r2"]
    /\ StoredFor(research_store, "r1") = returned["r1"]
    /\ Len(results["r1"]) = 2 /\ Len(results["r2"]) = 1

-----------------------------------------------------------------------------
(***************************************************************************)
(* Termination (checked under SpecLive)                                    *)
(***************************************************************************)

\* The iterations of the task loop run r has started
TaskIterations(r) ==
    Cardinality({i \in 1..Len(events[r]) :
                    events[r][i][1] = "block" /\ events[r][i][2] = "TASK"})

\* C36: a generate call makes at most 3 requests and, every request
\* answering or timing out, returns or raises; a run that started reaches
\* Done and completes, or aborts; the plan does not change once the planner
\* returned it, the task loop never makes more iterations than the plan has
\* tasks, and has made as many when conduct_research returns.
C36_Termination ==
    /\ [](requests <= max_retries)
    /\ (genPc \in {"posting", "sleeping"}) ~> (genPc \in {"returned", "raised"})
    /\ \A r \in LiveRuns : (pc[r] # "idle") ~> (pc[r] \in {"completed", "aborted"})
    /\ [](\A r \in LiveRuns :
            /\ research_plan[r] # None => TaskIterations(r) <= NTasks(r)
            /\ pc[r] \in {"done", "completed"} => TaskIterations(r) = NTasks(r))
    /\ [][\A r \in LiveRuns :
            research_plan[r] # None => research_plan'[r] = research_plan[r]]_vars

\* The call raised after its third request, and the run completed after the
\* four iterations of the fallback plan.
C36_Witness ==
    /\ genPc = "raised"
    /\ requests = max_retries
    /\ pc["r1"] = "completed"
    /\ TaskIterations("r1") = 4

=============================================================================
